---- MODULE Spec2Model ----
(***************************************************************************)
(* A model of the text-extraction helpers of job-hunter (src/utils.rs) and *)
(* of the part of the scraper that uses them (src/scraper.rs):             *)
(* find_yoe_naive, get_pay_i64, parse_salary, format_comma_separated and   *)
(* fetch_job_details, with the integers (i64), the floating-point numbers  *)
(* (f64) and the regular expressions they compute with.                    *)
(*                                                                         *)
(* Texts are TLA+ strings; Char(t, i) is the i-th character (1-based).     *)
(* Every helper is a pure function: a specification draws the argument of  *)
(* one call in Init and its single action applies the function.            *)
(***************************************************************************)
EXTENDS Integers, Sequences, FiniteSets, TLC

VARIABLES pc, arg, ret

vars == <<pc, arg, ret>>

(* Option<T> *)
None == [some |-> FALSE]
Some(v) == [some |-> TRUE, val |-> v]

(***************************************************************************)
(* Characters and strings                                                  *)
(***************************************************************************)
Char(t, i) == IF 1 <= i /\ i <= Len(t) THEN SubSeq(t, i, i) ELSE ""

Digits == {"0", "1", "2", "3", "4", "5", "6", "7", "8", "9"}

IsDigit(c) == c \in Digits

DigitVal(c) ==
    CASE c = "0" -> 0 [] c = "1" -> 1 [] c = "2" -> 2 [] c = "3" -> 3
      [] c = "4" -> 4 [] c = "5" -> 5 [] c = "6" -> 6 [] c = "7" -> 7
      [] c = "8" -> 8 [] c = "9" -> 9

(* the length of the run of digits that starts at position i *)
RECURSIVE DigitRun(_, _)
DigitRun(t, i) ==
    IF i <= Len(t) /\ IsDigit(Char(t, i)) THEN 1 + DigitRun(t, i + 1) ELSE 0

(* \d of the regex is the Unicode class Nd: it also matches the decimal    *)
(* digits outside ASCII (U+0663 ARABIC-INDIC DIGIT THREE, ...), which       *)
(* str::parse does not read. Strings here are ASCII, and this character    *)
(* stands for such a digit.                                                *)
NonAsciiDigit == "#"

IsRegexDigit(c) == IsDigit(c) \/ c = NonAsciiDigit

(* the length of the run of \d from position i of t *)
RECURSIVE RegexDigitRun(_, _)
RegexDigitRun(t, i) ==
    IF i <= Len(t) /\ IsRegexDigit(Char(t, i)) THEN 1 + RegexDigitRun(t, i + 1) ELSE 0

(* t[i..] starts with lit *)
StartsWithAt(t, i, lit) ==
    /\ i + Len(lit) - 1 <= Len(t)
    /\ SubSeq(t, i, i + Len(lit) - 1) = lit

(* the concatenation of the strings of a sequence, sep between them *)
RECURSIVE Join(_, _)
Join(parts, sep) ==
    IF parts = <<>> THEN ""
    ELSE IF Len(parts) = 1 THEN parts[1]
    ELSE parts[1] \o sep \o Join(Tail(parts), sep)

(* the value of a short string of decimal digits *)
RECURSIVE DecValue(_, _, _)
DecValue(t, i, acc) ==
    IF i > Len(t) THEN acc ELSE DecValue(t, i + 1, acc * 10 + DigitVal(Char(t, i)))

(***************************************************************************)
(* Natural numbers wider than the model checker's integers: a sequence of  *)
(* limbs in base BigBase, least significant first, without leading zero    *)
(* limbs (zero is the empty sequence). They carry the 53-bit significands  *)
(* of f64 and the 64-bit values of i64.                                    *)
(***************************************************************************)
BigBase == 10000

Limb(a, i) == IF i <= Len(a) THEN a[i] ELSE 0

RECURSIVE BigNorm(_)
BigNorm(a) ==
    IF a # <<>> /\ a[Len(a)] = 0 THEN BigNorm(SubSeq(a, 1, Len(a) - 1)) ELSE a

RECURSIVE BigCmpAt(_, _, _)
BigCmpAt(a, b, i) ==
    IF i = 0 THEN 0
    ELSE IF a[i] # b[i] THEN (IF a[i] < b[i] THEN -1 ELSE 1)
    ELSE BigCmpAt(a, b, i - 1)

(* -1, 0 or 1 as a < b, a = b or a > b *)
BigCmp(a, b) ==
    IF Len(a) # Len(b) THEN (IF Len(a) < Len(b) THEN -1 ELSE 1)
    ELSE BigCmpAt(a, b, Len(a))

RECURSIVE BigAddAt(_, _, _, _)
BigAddAt(a, b, i, carry) ==
    IF i > Len(a) /\ i > Len(b)
    THEN (IF carry = 0 THEN <<>> ELSE <<carry>>)
    ELSE LET sum == Limb(a, i) + Limb(b, i) + carry
         IN  <<sum % BigBase>> \o BigAddAt(a, b, i + 1, sum \div BigBase)

BigAdd(a, b) == BigAddAt(a, b, 1, 0)

(* a - b for a >= b (the result may have leading zero limbs) *)
RECURSIVE BigSubAt(_, _, _, _)
BigSubAt(a, b, i, borrow) ==
    IF i > Len(a) THEN <<>>
    ELSE LET d == a[i] - Limb(b, i) - borrow
         IN  IF d < 0 THEN <<d + BigBase>> \o BigSubAt(a, b, i + 1, 1)
             ELSE <<d>> \o BigSubAt(a, b, i + 1, 0)

BigSubAbs(a, b) == BigSubAt(a, b, 1, 0)

(* a * k for 0 <= k <= 100000 *)
RECURSIVE BigMulSmallAt(_, _, _, _)
BigMulSmallAt(a, k, i, carry) ==
    IF i > Len(a)
    THEN (IF carry = 0 THEN <<>>
          ELSE <<carry % BigBase>> \o BigMulSmallAt(a, k, i, carry \div BigBase))
    ELSE LET prod == a[i] * k + carry
         IN  <<prod % BigBase>> \o BigMulSmallAt(a, k, i + 1, prod \div BigBase)

BigMulSmall(a, k) == BigNorm(BigMulSmallAt(a, k, 1, 0))

(* quotient and remainder of a by k, for 0 < k <= 100000 *)
RECURSIVE BigDivSmallAt(_, _, _, _)
BigDivSmallAt(a, k, i, rem) ==
    IF i = 0 THEN [q |-> <<>>, r |-> rem]
    ELSE LET cur == rem * BigBase + a[i]
             low == BigDivSmallAt(a, k, i - 1, cur % k)
         IN  [q |-> low.q \o <<cur \div k>>, r |-> low.r]

BigDivSmall(a, k) ==
    LET d == BigDivSmallAt(a, k, Len(a), 0)
    IN  [q |-> BigNorm(d.q), r |-> d.r]

BigIsOdd(a) == a # <<>> /\ a[1] % 2 = 1

(* (The tests on b below only make the model checker compute b before the  *)
(* next step of the loop, instead of stacking up unevaluated steps.)       *)
RECURSIVE BigMulPow2(_, _)
BigMulPow2(a, k) ==
    IF k = 0 THEN a
    ELSE IF k >= 13
         THEN LET b == BigMulSmall(a, 8192)
              IN  IF b = <<>> THEN b ELSE BigMulPow2(b, k - 13)
    ELSE BigMulSmall(a, 2 ^ k)

RECURSIVE BigMulPow5(_, _)
BigMulPow5(a, k) ==
    IF k = 0 THEN a
    ELSE IF k >= 5
         THEN LET b == BigMulSmall(a, 3125)
              IN  IF b = <<>> THEN b ELSE BigMulPow5(b, k - 5)
    ELSE BigMulSmall(a, 5 ^ k)

(* floor(a / 5^k), and whether anything was cut off *)
RECURSIVE BigDivPow5(_, _, _)
BigDivPow5(a, k, sticky) ==
    IF k = 0 THEN [q |-> a, sticky |-> sticky]
    ELSE LET step == IF k >= 7 THEN 7 ELSE k
             d == BigDivSmall(a, 5 ^ step)
         IN  IF d.r # 0 THEN BigDivPow5(d.q, k - step, TRUE)
             ELSE BigDivPow5(d.q, k - step, sticky)

(* floor(a / 2^k), and whether anything was cut off *)
RECURSIVE BigShiftRight(_, _, _)
BigShiftRight(a, k, sticky) ==
    IF k = 0 THEN [q |-> a, sticky |-> sticky]
    ELSE LET step == IF k >= 13 THEN 13 ELSE k
             d == BigDivSmall(a, 2 ^ step)
         IN  IF d.r # 0 THEN BigShiftRight(d.q, k - step, TRUE)
             ELSE BigShiftRight(d.q, k - step, sticky)

(* the number of binary digits of a *)
RECURSIVE BigBitLenFrom(_, _)
BigBitLenFrom(a, bits) ==
    IF a = <<>> THEN bits
    ELSE IF Len(a) > 1 THEN BigBitLenFrom(BigDivSmall(a, 8192).q, bits + 13)
    ELSE BigBitLenFrom(BigDivSmall(a, 2).q, bits + 1)

BigBitLen(a) == BigBitLenFrom(a, 0)

(* a string of decimal digits as a number, and back *)
RECURSIVE BigFromDecAt(_)
BigFromDecAt(s) ==
    IF Len(s) <= 4 THEN <<DecValue(s, 1, 0)>>
    ELSE <<DecValue(SubSeq(s, Len(s) - 3, Len(s)), 1, 0)>>
            \o BigFromDecAt(SubSeq(s, 1, Len(s) - 4))

BigFromDec(s) == BigNorm(BigFromDecAt(s))

LimbDigits(n) ==
    IF n < 10 THEN "000" \o ToString(n)
    ELSE IF n < 100 THEN "00" \o ToString(n)
    ELSE IF n < 1000 THEN "0" \o ToString(n)
    ELSE ToString(n)

RECURSIVE BigToDecAt(_, _)
BigToDecAt(a, i) ==
    IF i = 0 THEN "" ELSE LimbDigits(a[i]) \o BigToDecAt(a, i - 1)

BigToDec(a) ==
    IF a = <<>> THEN "0"
    ELSE ToString(a[Len(a)]) \o BigToDecAt(a, Len(a) - 1)

RECURSIVE Zeros(_)
Zeros(n) == IF n <= 0 THEN "" ELSE "0" \o Zeros(n - 1)

(* s without its leading zeros, and s without its trailing zeros *)
RECURSIVE StripLeadingZeros(_)
StripLeadingZeros(s) ==
    IF Len(s) > 0 /\ Char(s, 1) = "0" THEN StripLeadingZeros(SubSeq(s, 2, Len(s))) ELSE s

RECURSIVE StripTrailingZeros(_)
StripTrailingZeros(s) ==
    IF Len(s) > 0 /\ Char(s, Len(s)) = "0"
    THEN StripTrailingZeros(SubSeq(s, 1, Len(s) - 1)) ELSE s

(***************************************************************************)
(* i64: a sign and a magnitude; zero is not negative.                      *)
(***************************************************************************)
I64(neg, mag) == [neg |-> neg /\ mag # <<>>, mag |-> mag]

I64MaxMag == BigFromDec("9223372036854775807")

I64Max == I64(FALSE, I64MaxMag)
I64Min == I64(TRUE, BigAdd(I64MaxMag, <<1>>))

(* the i64 of a small integer of the model checker *)
I64Of(n) ==
    IF n < 0 THEN I64(TRUE, BigFromDec(ToString(0 - n)))
    ELSE I64(FALSE, BigFromDec(ToString(n)))

(* a < b *)
I64Less(a, b) ==
    IF a.neg # b.neg THEN a.neg
    ELSE IF a.neg THEN BigCmp(a.mag, b.mag) > 0
    ELSE BigCmp(a.mag, b.mag) < 0

(***************************************************************************)
(* str::parse::<i64>(): an optional sign and one or more ASCII digits, the *)
(* value within the range of i64.                                          *)
(***************************************************************************)
ParseI64(t) ==
    LET signed == Char(t, 1) \in {"+", "-"}
        neg == Char(t, 1) = "-"
        body == IF signed THEN SubSeq(t, 2, Len(t)) ELSE t
        mag == BigFromDec(body)
    IN  IF /\ Len(body) > 0
           /\ DigitRun(body, 1) = Len(body)
           /\ BigCmp(mag, IF neg THEN I64Min.mag ELSE I64Max.mag) <= 0
        THEN [ok |-> TRUE, val |-> I64(neg, mag)]
        ELSE [ok |-> FALSE, val |-> I64(FALSE, <<>>)]

(***************************************************************************)
(* f64: IEEE 754 binary64. A finite value is man * 2^exp with man a 53-bit *)
(* significand (2^52 <= man < 2^53, or less when exp = F64MinExp, or 0 for *)
(* zero, which has exp = 0). Every operation rounds the exact result to    *)
(* the nearest representable value, ties to the even significand.          *)
(***************************************************************************)
F64MinExp == -1074
F64MaxExp == 971

F64Nan == [kind |-> "nan", neg |-> FALSE, man |-> <<>>, exp |-> 0]
F64Inf(neg) == [kind |-> "inf", neg |-> neg, man |-> <<>>, exp |-> 0]
F64Fin(neg, man, exp) ==
    [kind |-> "fin", neg |-> neg, man |-> man, exp |-> IF man = <<>> THEN 0 ELSE exp]

F64Two52 == BigMulPow2(<<1>>, 52)
F64Two53 == BigMulPow2(<<1>>, 53)

(* the finite f64 of significand man and exponent exp, infinite beyond    *)
(* the largest exponent                                                    *)
F64Finite(neg, man, exp) ==
    IF exp > F64MaxExp THEN F64Inf(neg) ELSE F64Fin(neg, man, exp)

(* sh.q is the significand q followed by one more bit, with sh.sticky     *)
(* telling whether anything lies below that bit: q rounded to nearest,     *)
(* ties to even; a significand that reaches 2^53 is 2^52 with the next     *)
(* exponent                                                                *)
F64RoundEven(neg, sh, q, exp) ==
    IF BigIsOdd(sh.q) /\ (sh.sticky \/ BigIsOdd(q))
    THEN (IF BigCmp(BigAdd(q, <<1>>), F64Two53) = 0 THEN F64Finite(neg, F64Two52, exp + 1)
          ELSE F64Finite(neg, BigAdd(q, <<1>>), exp))
    ELSE F64Finite(neg, q, exp)

F64Shifted(neg, sh, exp) == F64RoundEven(neg, sh, BigDivSmall(sh.q, 2).q, exp)

(* the f64 nearest to y.q * 2^base (and a little more if y.sticky): norm   *)
(* bits are dropped to leave 53, or more to keep the exponent at           *)
(* F64MinExp or above                                                      *)
F64Scaled(neg, y, base, norm) ==
    IF norm >= F64MinExp - base
    THEN F64Shifted(neg, BigShiftRight(y.q, norm - 1, y.sticky), base + norm)
    ELSE F64Shifted(neg, BigShiftRight(y.q, F64MinExp - base - 1, y.sticky), F64MinExp)

F64Normal(neg, y, base) == F64Scaled(neg, y, base, BigBitLen(y.q) - 53)

(* the f64 nearest to n * 2^a / 5^k: the quotient is taken with 54 bits or *)
(* more, and what it leaves is kept as a sticky bit                        *)
F64Nearest(neg, n, a, k) ==
    IF n = <<>> THEN F64Fin(neg, <<>>, 0)
    ELSE F64Normal(neg, BigDivPow5(BigMulPow2(n, 54 + 3 * k), k, FALSE), a - (54 + 3 * k))

(* the f64 nearest to coef * 10^x, coef a string of decimal digits. A      *)
(* value of more than 310 integer digits is beyond the largest f64 and one *)
(* below 10^-330 is nearer to zero than to the smallest f64.               *)
F64FromDecimal(neg, coef, x) ==
    LET sig == StripLeadingZeros(coef)
    IN  IF sig = "" THEN F64Fin(neg, <<>>, 0)
        ELSE IF Len(sig) + x > 310 THEN F64Inf(neg)
        ELSE IF Len(sig) + x < -330 THEN F64Fin(neg, <<>>, 0)
        ELSE IF x >= 0 THEN F64Nearest(neg, BigMulPow5(BigFromDec(sig), x), x, 0)
        ELSE F64Nearest(neg, BigFromDec(sig), x, 0 - x)

UpperLetters == "ABCDEFGHIJKLMNOPQRSTUVWXYZ"
LowerLetters == "abcdefghijklmnopqrstuvwxyz"

(* the position of character c in s, or 0 *)
RECURSIVE IndexOf(_, _, _)
IndexOf(c, s, i) ==
    IF i > Len(s) THEN 0 ELSE IF Char(s, i) = c THEN i ELSE IndexOf(c, s, i + 1)

CharToLower(c) ==
    LET i == IndexOf(c, UpperLetters, 1) IN IF i = 0 THEN c ELSE Char(LowerLetters, i)

CharToUpper(c) ==
    LET i == IndexOf(c, LowerLetters, 1) IN IF i = 0 THEN c ELSE Char(UpperLetters, i)

RECURSIVE ToLower(_)
ToLower(s) ==
    IF s = "" THEN "" ELSE CharToLower(Char(s, 1)) \o ToLower(SubSeq(s, 2, Len(s)))

(***************************************************************************)
(* str::parse::<f64>(): an optional sign, then "inf", "infinity" or "nan"  *)
(* in any case, or a decimal number (digits with an optional point, at     *)
(* least one digit) with an optional exponent e or E, optional sign and    *)
(* digits. Nothing else: no spaces, no commas, no empty string.            *)
(***************************************************************************)
F64Literal(kind, neg, coef, exp) ==
    [kind |-> kind, neg |-> neg, coef |-> coef, exp |-> exp]

(* the digits u of the exponent *)
ParseExponentDigits(neg, coef, frac, expNeg, u) ==
    IF u # "" /\ DigitRun(u, 1) = Len(u)
    THEN F64Literal("num", neg, coef,
                    (IF expNeg THEN 0 - DecValue(u, 1, 0) ELSE DecValue(u, 1, 0)) - frac)
    ELSE F64Literal("err", FALSE, "", 0)

(* the exponent t after its letter: an optional sign, then digits *)
ParseExponent(neg, coef, frac, t) ==
    IF Char(t, 1) \in {"+", "-"}
    THEN ParseExponentDigits(neg, coef, frac, Char(t, 1) = "-", SubSeq(t, 2, Len(t)))
    ELSE ParseExponentDigits(neg, coef, frac, FALSE, t)

(* int digits, a point or none, frac digits; p is the position after them *)
ParseMantissa(neg, body, int, frac, p) ==
    IF int + frac < 1 THEN F64Literal("err", FALSE, "", 0)
    ELSE IF p = Len(body) + 1
    THEN F64Literal("num", neg,
                    SubSeq(body, 1, int) \o SubSeq(body, int + 2, int + 1 + frac), 0 - frac)
    ELSE IF Char(body, p) \in {"e", "E"}
    THEN ParseExponent(neg, SubSeq(body, 1, int) \o SubSeq(body, int + 2, int + 1 + frac),
                       frac, SubSeq(body, p + 1, Len(body)))
    ELSE F64Literal("err", FALSE, "", 0)

ParseFraction(neg, body, int, frac) == ParseMantissa(neg, body, int, frac, int + 2 + frac)

ParseDigits(neg, body, int) ==
    IF Char(body, int + 1) = "." THEN ParseFraction(neg, body, int, DigitRun(body, int + 2))
    ELSE ParseMantissa(neg, body, int, 0, int + 1)

ParseUnsigned(neg, body) ==
    IF ToLower(body) \in {"inf", "infinity"} THEN F64Literal("inf", neg, "", 0)
    ELSE IF ToLower(body) = "nan" THEN F64Literal("nan", neg, "", 0)
    ELSE ParseDigits(neg, body, DigitRun(body, 1))

(* the literal s: its kind ("inf", "nan", "num", or "err" for none), its   *)
(* sign and, for a number, its digits and exponent: coef * 10^exp          *)
ParseLiteral(s) ==
    ParseUnsigned(Char(s, 1) = "-",
                  IF Char(s, 1) \in {"+", "-"} THEN SubSeq(s, 2, Len(s)) ELSE s)

F64OfLiteral(l) ==
    IF l.kind = "num" THEN [ok |-> TRUE, val |-> F64FromDecimal(l.neg, l.coef, l.exp)]
    ELSE IF l.kind = "inf" THEN [ok |-> TRUE, val |-> F64Inf(l.neg)]
    ELSE IF l.kind = "nan" THEN [ok |-> TRUE, val |-> F64Nan]
    ELSE [ok |-> FALSE, val |-> F64Nan]

ParseF64(s) == F64OfLiteral(ParseLiteral(s))

(* x * 100.0 *)
F64Times100(x) ==
    IF x.kind # "fin" THEN x
    ELSE F64Nearest(x.neg, BigMulSmall(x.man, 25), x.exp + 2, 0)

(* f64::round: to the nearest integer, halves away from zero *)
F64Round(x) ==
    IF x.kind # "fin" \/ x.exp >= 0 THEN x
    ELSE IF x.exp < -54 THEN F64Fin(x.neg, <<>>, 0)
    ELSE LET sh == BigShiftRight(x.man, 0 - x.exp - 1, FALSE)
             q == BigDivSmall(sh.q, 2).q
         IN  F64Nearest(x.neg, IF BigIsOdd(sh.q) THEN BigAdd(q, <<1>>) ELSE q, 0, 0)

(* x as i64: toward zero, saturating at the ends of the range, NaN to 0 *)
F64AsI64(x) ==
    IF x.kind = "nan" THEN I64(FALSE, <<>>)
    ELSE IF x.kind = "inf" \/ x.exp > 11 THEN (IF x.neg THEN I64Min ELSE I64Max)
    ELSE LET mag == IF x.exp >= 0 THEN BigMulPow2(x.man, x.exp)
                    ELSE IF x.exp < -54 THEN <<>>
                    ELSE BigShiftRight(x.man, 0 - x.exp, FALSE).q
         IN  IF BigCmp(mag, I64MaxMag) > 0 THEN (IF x.neg THEN I64Min ELSE I64Max)
             ELSE I64(x.neg, mag)

(***************************************************************************)
(* get_pay_i64                                                             *)
(***************************************************************************)
Ok(v) == [ok |-> TRUE, val |-> v]
Err(e) == [ok |-> FALSE, val |-> e]

PayCents(num) == Ok(F64AsI64(F64Round(F64Times100(num))))

get_pay_i64_truncating(s) ==
    IF ParseF64(s).ok THEN Ok(F64AsI64(F64Times100(ParseF64(s).val)))
    ELSE Err("Invalid input string")

get_pay_i64_zero_on_error(s) ==
    IF ParseF64(s).ok THEN PayCents(ParseF64(s).val)
    ELSE Ok(I64(FALSE, <<>>))

PayResult(parsed) ==
    IF parsed.ok THEN PayCents(parsed.val) ELSE Err("Invalid input string")

get_pay_i64(s) == PayResult(ParseF64(s))

(***************************************************************************)
(* find_yoe_naive: the regex   ( [\d]* ) [\D]? ( [\d]+ ) [\+]? year[s]?    *)
(* (written here with spaces between its parts).                           *)
(* The regex crate returns, at the leftmost position where a match exists, *)
(* the match its backtracking priorities prefer: every quantifier here is  *)
(* greedy, so group 1 as long as possible, then the separator taken rather *)
(* than skipped, then group 2 as long as possible.                         *)
(***************************************************************************)

(* the rest of the pattern after group 2: [\+]? year[s]? starting at       *)
(* position l; the position after the match, or 0 when it does not match   *)
YoeTailEnd(t, l) ==
    LET AfterLit(p) ==
            IF StartsWithAt(t, p, " year")
            THEN (IF Char(t, p + 5) = "s" THEN p + 6 ELSE p + 5)
            ELSE 0
    IN  IF Char(t, l) = "+" /\ AfterLit(l + 1) # 0 THEN AfterLit(l + 1)
        ELSE AfterLit(l)

(* the ways the pattern matches at position i: <<a, s, b>> are the lengths *)
(* of group 1, of the separator (0 or 1) and of group 2                    *)
YoeCandidates(t, i) ==
    { c \in (0 .. RegexDigitRun(t, i)) \X {0, 1} \X (1 .. Len(t)) :
        /\ c[2] = 1 => (i + c[1] <= Len(t) /\ ~IsRegexDigit(Char(t, i + c[1])))
        /\ c[3] <= RegexDigitRun(t, i + c[1] + c[2])
        /\ YoeTailEnd(t, i + c[1] + c[2] + c[3]) # 0 }

YoePreferred(c, d) ==
    \/ c[1] > d[1]
    \/ c[1] = d[1] /\ c[2] > d[2]
    \/ c[1] = d[1] /\ c[2] = d[2] /\ c[3] >= d[3]

(* the match at position i: its captures and the position after it *)
YoeMatchAt(t, i) ==
    LET cands == YoeCandidates(t, i)
    IN  IF cands = {} THEN None
        ELSE LET c == CHOOSE x \in cands : \A y \in cands : YoePreferred(x, y)
                 e == YoeTailEnd(t, i + c[1] + c[2] + c[3])
             IN  Some([g0 |-> SubSeq(t, i, e - 1),
                       g1 |-> SubSeq(t, i, i + c[1] - 1),
                       g2 |-> SubSeq(t, i + c[1] + c[2], i + c[1] + c[2] + c[3] - 1),
                       end |-> e])

(* captures_iter: the successive non-overlapping matches, searching from   *)
(* position i                                                              *)
RECURSIVE YoeCaptures(_, _)
YoeCaptures(t, i) ==
    IF i > Len(t) THEN <<>>
    ELSE LET m == YoeMatchAt(t, i)
         IN  IF m.some THEN <<m.val>> \o YoeCaptures(t, m.val.end)
             ELSE YoeCaptures(t, i + 1)

(* the body of the inner loop for one capture group *)
YoeGroupStep(acc, group) ==
    LET p == ParseI64(group)
    IN  IF p.ok
        THEN [min |-> IF I64Less(p.val, acc.min) THEN p.val ELSE acc.min,
              max |-> IF I64Less(acc.max, p.val) THEN p.val ELSE acc.max]
        ELSE acc

(* the outer loop: cap.iter() yields group 0 (the whole match), 1 and 2 *)
RECURSIVE YoeFold(_, _)
YoeFold(caps, acc) ==
    IF caps = <<>> THEN acc
    ELSE YoeFold(Tail(caps),
                 YoeGroupStep(YoeGroupStep(YoeGroupStep(acc, caps[1].g0),
                                           caps[1].g1),
                              caps[1].g2))

YoeResultUnguarded(acc) ==
    <<Some(acc.min), IF acc.max # acc.min THEN Some(acc.max) ELSE None>>

YoeResultAlwaysMax(acc) ==
    <<IF I64Less(acc.min, I64Max) THEN Some(acc.min) ELSE None,
      IF I64Less(I64Min, acc.max) THEN Some(acc.max) ELSE None>>

(* lines 75-82: the pair built from the two accumulators *)
YoeResult(acc) ==
    <<IF I64Less(acc.min, I64Max) THEN Some(acc.min) ELSE None,
      IF I64Less(I64Min, acc.max) /\ acc.max # acc.min THEN Some(acc.max) ELSE None>>

find_yoe_naive(text) ==
    YoeResult(YoeFold(YoeCaptures(text, 1), [min |-> I64Max, max |-> I64Min]))

(***************************************************************************)
(* The texts find_yoe_naive is applied to: up to MaxMentions pieces, each  *)
(* a mention of experience or filler, joined by a separator, after a       *)
(* prefix.                                                                 *)
(***************************************************************************)
MaxMentions == 2

YoeNumerals == {"3", "5", "7", "10"}

YoePieces ==
    {n \o " years" : n \in YoeNumerals}
      \cup {n \o "+ years" : n \in YoeNumerals}
      \cup {n \o " year" : n \in YoeNumerals}
      \cup {"3-5 years", "5-10 years", "7-3 years", "10-15 years"}
      \cup {"x", "7", "years", "3 - 5 years"}

YoeTexts ==
    UNION { { pre \o Join(ps, sep) : ps \in [1 .. k -> YoePieces] } :
            <<k, pre, sep>> \in (0 .. MaxMentions) \X {"", " "} \X {"", ", "} }

YoeInit ==
    /\ pc = "call"
    /\ arg \in YoeTexts
    /\ ret = <<>>

FindYoeNaive ==
    /\ pc = "call"
    /\ ret' = find_yoe_naive(arg)
    /\ pc' = "done"
    /\ UNCHANGED arg

YoeNext == FindYoeNaive

SpecYoe == YoeInit /\ [][YoeNext]_vars

(***************************************************************************)
(* Claims about find_yoe_naive                                             *)
(***************************************************************************)
SetMin(S) == CHOOSE x \in S : \A y \in S : x <= y
SetMax(S) == CHOOSE x \in S : \A y \in S : x >= y

(* the first position of the run of digits that ends just before l *)
RECURSIVE RunStart(_, _)
RunStart(t, l) ==
    IF l > 1 /\ IsDigit(Char(t, l - 1)) THEN RunStart(t, l - 1) ELSE l

(* The numbers a reader finds in the mentions of a text: a whole number   *)
(* followed by " year", " years", "+ year" or "+ years" and, when that    *)
(* number is the M of "N-M", the whole number N as well.                  *)
MentionNumbers(t) ==
    LET ends == { l \in 2 .. Len(t) :
                    /\ IsDigit(Char(t, l - 1))
                    /\ ~IsDigit(Char(t, l))
                    /\ YoeTailEnd(t, l) # 0 }
        Upper(l) == DecValue(SubSeq(t, RunStart(t, l), l - 1), 1, 0)
        HasLower(l) ==
            LET s == RunStart(t, l)
            IN  s >= 3 /\ Char(t, s - 1) = "-" /\ IsDigit(Char(t, s - 2))
        Lower(l) ==
            LET s == RunStart(t, l)
            IN  DecValue(SubSeq(t, RunStart(t, s - 1), s - 2), 1, 0)
    IN  { Upper(l) : l \in ends } \cup { Lower(l) : l \in { e \in ends : HasLower(e) } }

(* C3: a text whose only mention is one number N followed by " year" or   *)
(* " years", the text being exactly that or that after one more           *)
(* character, gives min = N and no max.                                   *)
C3_SingleNumberIsMin ==
    \A n \in YoeNumerals : \A pre \in {"", " "} : \A unit \in {" year", " years"} :
        (pc = "done" /\ arg = pre \o n \o unit)
            => ret = <<Some(I64Of(DecValue(n, 1, 0))), None>>

(* C4: min is the smallest and max the largest of all the numbers of all  *)
(* the mentions of the text, max being reported only when it differs.     *)
C4_GlobalEnvelope ==
    pc = "done" =>
        LET ns == MentionNumbers(arg)
        IN  ret = <<IF ns = {} THEN None ELSE Some(I64Of(SetMin(ns))),
                    IF Cardinality(ns) > 1 THEN Some(I64Of(SetMax(ns))) ELSE None>>

(* the numbers the scan of find_yoe_naive parses out of a text *)
YoeParsed(t) ==
    LET caps == YoeCaptures(t, 1)
    IN  { ParseI64(g).val :
            g \in { x \in UNION { {caps[i].g0, caps[i].g1, caps[i].g2} : i \in 1 .. Len(caps) } :
                      ParseI64(x).ok } }

(* C8: when both sides are present min <= max; when the scan finds one    *)
(* number only, it is the min and the max is absent (not zero, not the    *)
(* same number again); when it finds none, both are absent.               *)
C8_MinLeMaxOrAbsent ==
    pc = "done" =>
        LET min == ret[1]
            max == ret[2]
            ns == YoeParsed(arg)
        IN  /\ (min.some /\ max.some) => ~I64Less(max.val, min.val)
            /\ max.some => min.some
            /\ Cardinality(ns) = 1 => (\A n \in ns : min = Some(n)) /\ max = None
            /\ ns = {} => (min = None /\ max = None)

C8_Witness ==
    /\ pc = "done"
    /\ arg = "5 years, x"
    /\ ret = <<Some(I64Of(5)), None>>

(***************************************************************************)
(* The strings get_pay_i64 is applied to (what the user types into a pay   *)
(* field): a prefix, up to MaxPayTokens tokens or a word, and a suffix.    *)
(***************************************************************************)
MaxPayTokens == 3

PayTokens == {"0", "5", "8", ".", ","}

PayWords == {"inf", "Infinity", "NaN", "nan", "85,000", "85,000.50", "85000.50", "n/a"}

PayPrefixes == {"", "-", "+", " ", "$"}

PaySuffixes == {"", "e17", "e-3", "E2", "e"}

PayBodies ==
    UNION { { Join(ts, "") : ts \in [1 .. k -> PayTokens] } : k \in 0 .. MaxPayTokens }
      \cup PayWords

PayTexts ==
    { x[1] \o x[2] \o x[3] : x \in PayPrefixes \X PayBodies \X PaySuffixes }

PayInit ==
    /\ pc = "call"
    /\ arg \in PayTexts
    /\ ret = <<>>

GetPayI64 ==
    /\ pc = "call"
    /\ ret' = get_pay_i64(arg)
    /\ pc' = "done"
    /\ UNCHANGED arg

PayNext == GetPayI64

SpecPay == PayInit /\ [][PayNext]_vars

(***************************************************************************)
(* Claims about get_pay_i64                                                *)
(***************************************************************************)
RECURSIVE AllDigits(_)
AllDigits(s) ==
    s = "" \/ (IsDigit(Char(s, 1)) /\ AllDigits(SubSeq(s, 2, Len(s))))

HasDigit(s) == \E i \in 1 .. Len(s) : IsDigit(Char(s, i))

(* an exponent part: e or E, an optional sign, one or more digits *)
IsExponent(s) ==
    /\ Char(s, 1) \in {"e", "E"}
    /\ LET t == SubSeq(s, 2, Len(s))
           u == IF Char(t, 1) \in {"+", "-"} THEN SubSeq(t, 2, Len(t)) ELSE t
       IN  u # "" /\ AllDigits(u)

(* a decimal number: digits, optionally a point and digits, at least one   *)
(* digit in all, optionally an exponent part                               *)
IsDecimalNumber(s) ==
    \E a \in 0 .. Len(s) : \E b \in 0 .. Len(s) : \E pt \in {0, 1} :
        /\ a + pt + b <= Len(s)
        /\ a + b >= 1
        /\ pt = 0 => b = 0
        /\ pt = 1 => Char(s, a + 1) = "."
        /\ AllDigits(SubSeq(s, 1, a))
        /\ AllDigits(SubSeq(s, a + pt + 1, a + pt + b))
        /\ LET rest == SubSeq(s, a + pt + b + 1, Len(s))
           IN  rest = "" \/ IsExponent(rest)

Unsigned(s) == IF Char(s, 1) \in {"+", "-"} THEN SubSeq(s, 2, Len(s)) ELSE s

(* the floating-point literals of Rust's f64::from_str *)
IsFloatLiteral(s) ==
    \/ ToLower(Unsigned(s)) \in {"inf", "infinity", "nan"}
    \/ IsDecimalNumber(Unsigned(s))

(* c is a nearest integer to 100 * f, as near as binary64 arithmetic can   *)
(* tell: |c - 100 f| <= 1/2 + 100 f / 2^53, for the f64 f = man * 2^exp    *)
(* and the natural number c. With s = max(0, -exp) both sides are scaled   *)
(* by 2^(s + 54).                                                          *)
NearestCents(c, f) ==
    LET s == IF f.exp < 0 THEN 0 - f.exp ELSE 0
        a == BigMulPow2(BigMulSmall(f.man, 100), f.exp + s)
        cs == BigMulPow2(c, s)
        diff == IF BigCmp(cs, a) >= 0 THEN BigNorm(BigSubAbs(cs, a))
                ELSE BigNorm(BigSubAbs(a, cs))
    IN  BigCmp(BigMulPow2(diff, 54),
               BigAdd(BigMulPow2(<<1>>, s + 53), BigMulSmall(a, 2))) <= 0

(* 100 * f >= 2^63: the cents do not fit an i64 *)
CentsOverflow(f) ==
    LET s == IF f.exp < 0 THEN 0 - f.exp ELSE 0
    IN  BigCmp(BigMulPow2(BigMulSmall(f.man, 100), f.exp + s),
               BigMulPow2(<<1>>, 63 + s)) >= 0

(* the argument parses as a non-negative finite decimal number *)
PayIsAmount(s) ==
    /\ IsDecimalNumber(Unsigned(s))
    /\ Char(s, 1) # "-"
    /\ ParseF64(s).val.kind = "fin"

(* an amount written as digits with at most two decimals: its cents *)
PlainCents(s) ==
    LET u == Unsigned(s)
        dot == IndexOf(".", u, 1)
        int == IF dot = 0 THEN u ELSE SubSeq(u, 1, dot - 1)
        frac == IF dot = 0 THEN "" ELSE SubSeq(u, dot + 1, Len(u))
    IN  BigFromDec(int \o frac \o Zeros(2 - Len(frac)))

IsPlainAmount(s) ==
    LET u == Unsigned(s)
        dot == IndexOf(".", u, 1)
    IN  /\ PayIsAmount(s)
        /\ IndexOf("e", u, 1) = 0 /\ IndexOf("E", u, 1) = 0
        /\ dot # 0 => Len(u) - dot <= 2

C6_NoDigitFails ==
    (pc = "done" /\ ~HasDigit(arg)) => ~ret.ok

(* C7: for every string that is not a floating-point literal, and so for   *)
(* every string with a comma, the result is Err("Invalid input string"),   *)
(* never an Ok amount.                                                     *)
C7_InvalidInputError ==
    pc = "done" =>
        /\ ~IsFloatLiteral(arg) => (~ret.ok /\ ret.val = "Invalid input string")
        /\ IndexOf(",", arg, 1) # 0 => (~ret.ok /\ ret.val = "Invalid input string")

C7_Witness ==
    /\ pc = "done"
    /\ arg = "85,000.50"
    /\ ~ret.ok
    /\ ret.val = "Invalid input string"

(***************************************************************************)
(* format!("{}", f64): the shortest decimal digits that parse back to the  *)
(* same f64, written without an exponent.                                  *)
(***************************************************************************)
(* the exact decimal digits of a finite non-zero x: x = 0.digits * 10^point *)
F64Digits(x) ==
    LET p == IF x.exp < 0 THEN 0 - x.exp ELSE 0
        n == IF x.exp < 0 THEN BigMulPow5(x.man, p) ELSE BigMulPow2(x.man, x.exp)
        ds == BigToDec(n)
    IN  [digits |-> ds, point |-> Len(ds) - p]

(* the first nd digits of d, or those plus one unit in the last place,     *)
(* the nearer first, where one of them parses back to x; otherwise one     *)
(* digit more                                                              *)
RECURSIVE F64Shortest(_, _, _)
F64ShortestPick(x, d, nd, lo, hi, ok) ==
    IF DigitVal(Char(d.digits, nd + 1)) >= 5 /\ ok[hi]
    THEN [digits |-> hi, point |-> d.point - nd + Len(hi)]
    ELSE IF ok[lo] THEN [digits |-> lo, point |-> d.point]
    ELSE IF ok[hi] THEN [digits |-> hi, point |-> d.point - nd + Len(hi)]
    ELSE F64Shortest(x, d, nd + 1)

F64ShortestOf(x, d, nd, lo, hi) ==
    F64ShortestPick(x, d, nd, lo, hi,
                    [ c \in {lo, hi} |-> F64FromDecimal(x.neg, c, d.point - nd) = x ])

F64Shortest(x, d, nd) ==
    IF nd >= Len(d.digits) THEN d
    ELSE F64ShortestOf(x, d, nd, SubSeq(d.digits, 1, nd),
                       BigToDec(BigAdd(BigFromDec(SubSeq(d.digits, 1, nd)), <<1>>)))

(* the digits ds with the decimal point after the first point of them *)
F64Positional(sign, ds, point) ==
    sign \o (IF point <= 0 THEN "0." \o Zeros(0 - point) \o ds
             ELSE IF point >= Len(ds) THEN ds \o Zeros(point - Len(ds))
             ELSE SubSeq(ds, 1, point) \o "." \o SubSeq(ds, point + 1, Len(ds)))

F64DisplayDigits(sign, s) == F64Positional(sign, StripTrailingZeros(s.digits), s.point)

F64Display(x) ==
    IF x.kind = "nan" THEN "NaN"
    ELSE IF x.kind = "inf" THEN (IF x.neg THEN "-inf" ELSE "inf")
    ELSE IF x.man = <<>> THEN (IF x.neg THEN "-0" ELSE "0")
    ELSE F64DisplayDigits(IF x.neg THEN "-" ELSE "", F64Shortest(x, F64Digits(x), 1))

(***************************************************************************)
(* parse_salary: the matches of the regular expression                     *)
(*     \D ( [\d,]+ \. \d \d ) \/ ( [a-z]* )                                *)
(* The run of digits and commas is followed by a point, which is neither,  *)
(* so only the longest run can match; so for the run of letters, which     *)
(* ends the expression.                                                    *)
(***************************************************************************)
(* the length of the longest run of characters of cs in t from position i *)
RECURSIVE CharRun(_, _, _)
CharRun(t, i, cs) ==
    IF i <= Len(t) /\ IndexOf(Char(t, i), cs, 1) # 0 THEN 1 + CharRun(t, i + 1, cs) ELSE 0

SalaryMatchAt(t, i) ==
    LET l == CharRun(t, i + 1, "0123456789," \o NonAsciiDigit)
        dot == i + 1 + l
        u == CharRun(t, dot + 4, LowerLetters)
    IN  IF /\ i <= Len(t)
           /\ ~IsRegexDigit(Char(t, i))
           /\ l >= 1
           /\ Char(t, dot) = "."
           /\ IsRegexDigit(Char(t, dot + 1))
           /\ IsRegexDigit(Char(t, dot + 2))
           /\ Char(t, dot + 3) = "/"
        THEN Some([g1 |-> SubSeq(t, i + 1, dot + 2),
                   g2 |-> SubSeq(t, dot + 4, dot + 3 + u),
                   end |-> dot + 4 + u])
        ELSE None

(* captures_iter: the leftmost match, then the leftmost after its end *)
RECURSIVE SalaryCaptures(_, _)
SalaryCaptures(t, i) ==
    IF i > Len(t) THEN <<>>
    ELSE LET m == SalaryMatchAt(t, i)
         IN  IF m.some THEN <<m.val>> \o SalaryCaptures(t, m.val.end)
             ELSE SalaryCaptures(t, i + 1)

KeepCommas(no) == no

(* no.replace(",", "") *)
RECURSIVE RemoveCommas(_)
RemoveCommas(no) ==
    IF no = "" THEN ""
    ELSE (IF Char(no, 1) = "," THEN "" ELSE Char(no, 1))
            \o RemoveCommas(SubSeq(no, 2, Len(no)))

(* results.push((no_f64, pay_freq)) when cleaned parses *)
SalaryPush(no_f64, pay_freq) ==
    IF no_f64.ok THEN << <<no_f64.val, pay_freq>> >> ELSE <<>>

RECURSIVE SalaryResults(_)
SalaryResults(caps) ==
    IF caps = <<>> THEN <<>>
    ELSE SalaryPush(ParseF64(RemoveCommas(caps[1].g1)), caps[1].g2)
            \o SalaryResults(Tail(caps))

parse_salary(salary_str) == SalaryResults(SalaryCaptures(salary_str, 1))

(***************************************************************************)
(* fetch_job_details. The driver is the page it would load: whether the    *)
(* elements of the company, title, location, description and posted time   *)
(* are found, the description, and the salary element when there is one.   *)
(***************************************************************************)
RECURSIVE Contains(_, _, _)
Contains(s, sub, i) ==
    i + Len(sub) - 1 <= Len(s) /\ (StartsWithAt(s, i, sub) \/ Contains(s, sub, i + 1))

PayAtSwapped(parsed, n) ==
    IF 3 - n >= 1 /\ 3 - n <= Len(parsed)
    THEN Some(get_pay_i64(F64Display(parsed[3 - n][1]))) ELSE None

PayAtOrLast(parsed, n) ==
    IF n <= Len(parsed) THEN Some(get_pay_i64(F64Display(parsed[n][1])))
    ELSE IF parsed # <<>> THEN Some(get_pay_i64(F64Display(parsed[Len(parsed)][1])))
    ELSE None

(* Some(get_pay_i64(format!("{salary}")).expect(..)) for parsed.get(n),    *)
(* None without it; n counts from 1 here                                   *)
PayAt(parsed, n) ==
    IF n <= Len(parsed) THEN Some(get_pay_i64(F64Display(parsed[n][1]))) ELSE None

(* the job post returned; pay[1] is min_pay and pay[2] is max_pay, either  *)
(* None or Some of the result that expect() unwraps                        *)
JobPostOf(url, desc_text, yoe, pay) ==
    IF (pay[2].some /\ ~pay[2].val.ok) \/ (pay[1].some /\ ~pay[1].val.ok)
    THEN Err("panicked: Failed to get pay i64")
    ELSE Ok(Some([location_type |->
                      IF Contains(ToLower(desc_text), "remote", 1) THEN "Remote"
                      ELSE IF Contains(ToLower(desc_text), "hybrid", 1) THEN "Hybrid"
                      ELSE "Onsite",
                  url |-> url,
                  min_yoe |-> yoe[1],
                  max_yoe |-> yoe[2],
                  min_pay_cents |-> IF pay[1].some THEN Some(pay[1].val.val) ELSE None,
                  max_pay_cents |-> IF pay[2].some THEN Some(pay[2].val.val) ELSE None]))

(* max_pay from parsed.get(1) and min_pay from parsed.get(0) *)
JobPostPay(parsed) == [ n \in {1, 2} |-> PayAt(parsed, n) ]

fetch_job_details_salary_required(driver, url) ==
    IF Contains(url, "linkedin.com/jobs/view", 1)
    THEN IF ~driver.found \/ ~driver.salary.some THEN Err("NoSuchElement")
         ELSE JobPostOf(url, driver.desc, find_yoe_naive(driver.desc),
                        JobPostPay(parse_salary(driver.salary.val)))
    ELSE Ok(None)

fetch_job_details(driver, url) ==
    IF Contains(url, "linkedin.com/jobs/view", 1)
    THEN IF ~driver.found THEN Err("NoSuchElement")
         ELSE JobPostOf(url, driver.desc, find_yoe_naive(driver.desc),
                        JobPostPay(parse_salary(IF driver.salary.some
                                                THEN driver.salary.val ELSE "")))
    ELSE Ok(None)

(***************************************************************************)
(* The salary texts parse_salary is applied to: up to MaxSalaryAmounts     *)
(* amounts, the way the site writes them and a few other ways, one after   *)
(* the other or with a dash between them.                                  *)
(***************************************************************************)
MaxSalaryAmounts == 2

SalaryAmounts ==
    {"$85,000.00/yr", "$60,000.00/yr", "$120,000.00/yr", "$42.50/hr",
     "9.99/mo", "$5.5/yr", "$7.00/", "85,000.00/yr", "$1.00/a2.00/b3.00/c"}

SalarySeps == {"", " - "}

(* the texts of exactly k of the amounts *)
RECURSIVE SalaryTextsOf(_, _)
SalaryTextsOf(amounts, k) ==
    IF k = 0 THEN {""}
    ELSE IF k = 1 THEN amounts
    ELSE { x[1] \o x[2] \o x[3] : x \in SalaryTextsOf(amounts, k - 1) \X SalarySeps \X amounts }

SalaryTexts == UNION { SalaryTextsOf(SalaryAmounts, k) : k \in 0 .. MaxSalaryAmounts }

SalaryInit ==
    /\ pc = "call"
    /\ arg \in SalaryTexts
    /\ ret = <<>>

ParseSalary ==
    /\ pc = "call"
    /\ ret' = parse_salary(arg)
    /\ pc' = "done"
    /\ UNCHANGED arg

SalaryNext == ParseSalary

SpecSalary == SalaryInit /\ [][SalaryNext]_vars

(***************************************************************************)
(* Claims about parse_salary                                               *)
(***************************************************************************)
(* the position of the first point of t after position i, or 0 *)
PointAfter(t, i) == IndexOf(".", t, i + 1)

(* the last position of the letters that follow the slash at position i *)
UnitEnd(t, i) ==
    CHOOSE e \in i .. Len(t) :
        /\ \A j \in i + 1 .. e : IndexOf(Char(t, j), LowerLetters, 1) # 0
        /\ e = Len(t) \/ IndexOf(Char(t, e + 1), LowerLetters, 1) = 0

(* an amount per period occurs at position i of t: a character that is no  *)
(* digit, then digits and commas, a point, exactly two digits, a slash     *)
IsSalaryOccurrence(t, i) ==
    LET a == PointAfter(t, i)
    IN  /\ ~IsDigit(Char(t, i))
        /\ a > i + 1
        /\ \A j \in i + 1 .. a - 1 : IsDigit(Char(t, j)) \/ Char(t, j) = ","
        /\ a + 3 <= Len(t)
        /\ IsDigit(Char(t, a + 1)) /\ IsDigit(Char(t, a + 2))
        /\ Char(t, a + 3) = "/"

SalaryOccurrences(t) == { i \in 1 .. Len(t) : IsSalaryOccurrence(t, i) }

OccurrenceEnd(t, i) == UnitEnd(t, PointAfter(t, i) + 3)

(* the occurrences read from left to right, each starting after the end of *)
(* the one read before it                                                  *)
SalaryRead(t) ==
    CHOOSE X \in SUBSET SalaryOccurrences(t) :
        \A i \in SalaryOccurrences(t) :
            i \in X <=> \A j \in X : j < i => OccurrenceEnd(t, j) < i

(* the k-th element of a set of numbers *)
Nth(X, k) == CHOOSE i \in X : Cardinality({ j \in X : j < i }) = k - 1

(* the digits of the amount at occurrence i, commas and point left out:    *)
(* the amount in cents                                                     *)
OccurrenceCentsDigits(t, i) ==
    LET a == PointAfter(t, i)
        F[j \in i .. a - 1] ==
            IF j = i THEN ""
            ELSE F[j - 1] \o (IF Char(t, j) = "," THEN "" ELSE Char(t, j))
    IN  F[a - 1] \o SubSeq(t, a + 1, a + 2)

OccurrenceUnit(t, i) ==
    SubSeq(t, PointAfter(t, i) + 4, OccurrenceEnd(t, i))

(* C9: parse_salary returns, in the order of the text, one pair for each   *)
(* occurrence read: the f64 of the amount with its commas removed, and the *)
(* letters after the slash.                                                *)
C9_PairPerOccurrence ==
    pc = "done" =>
        LET X == SalaryRead(arg)
        IN  ret = [ k \in 1 .. Cardinality(X) |->
                      <<F64FromDecimal(FALSE, OccurrenceCentsDigits(arg, Nth(X, k)), -2),
                        OccurrenceUnit(arg, Nth(X, k))>> ]

C9_Witness ==
    /\ pc = "done"
    /\ arg = "$85,000.00/yr - $60,000.00/yr"
    /\ ret = << <<F64FromDecimal(FALSE, "85000", 0), "yr">>,
                <<F64FromDecimal(FALSE, "60000", 0), "yr">> >>

(***************************************************************************)
(* The calls of fetch_job_details: a job URL of the site or another URL,   *)
(* and the page behind it.                                                 *)
(***************************************************************************)
FetchUrls == {"https://www.linkedin.com/jobs/view/1", "https://example.com/jobs/1"}

FetchDescs == {"5 years", "3-5 years, Remote", "5 yrs, hybrid"}

MaxPageAmounts == 2

PageAmounts ==
    {"$85,000.00/yr", "$60,000.00/yr", "$42.50/hr", "$5.5/yr", "$1.00/a2.00/b3.00/c"}

PageSalaryTexts == UNION { SalaryTextsOf(PageAmounts, k) : k \in 0 .. MaxPageAmounts }

FetchDrivers ==
    [found : BOOLEAN, desc : FetchDescs,
     salary : {None} \cup { Some(t) : t \in PageSalaryTexts }]

FetchInit ==
    /\ pc = "call"
    /\ arg \in [driver : FetchDrivers, url : FetchUrls]
    /\ ret = <<>>

FetchJobDetails ==
    /\ pc = "call"
    /\ ret' = fetch_job_details(arg.driver, arg.url)
    /\ pc' = "done"
    /\ UNCHANGED arg

FetchNext == FetchJobDetails

SpecFetch == FetchInit /\ [][FetchNext]_vars

(***************************************************************************)
(* Claims about the pay of a fetched job post                              *)
(***************************************************************************)
(* the call has returned a job post *)
Fetched == pc = "done" /\ ret.ok /\ ret.val.some

(* the text of the salary element, empty without the element *)
FetchedSalaryText == IF arg.driver.salary.some THEN arg.driver.salary.val ELSE ""

(* the cents of the k-th amount read in the salary text *)
FetchedCents(k) ==
    I64(FALSE, BigFromDec(OccurrenceCentsDigits(FetchedSalaryText,
                                                Nth(SalaryRead(FetchedSalaryText), k))))

PageScraped ==
    /\ pc = "done"
    /\ Contains(arg.url, "linkedin.com/jobs/view", 1)
    /\ arg.driver.found

(* a number of years is mentioned in t: a digit, then " year" or "+ year"  *)
HasYearMention(t) ==
    \E i \in 1 .. Len(t) :
        /\ IsDigit(Char(t, i))
        /\ StartsWithAt(t, i + 1, " year") \/ StartsWithAt(t, i + 1, "+ year")

(* C22: when the salary element is missing or its text has no amount per   *)
(* period, the job post is returned with min_pay_cents and max_pay_cents   *)
(* absent; when the description mentions no number of years, it is         *)
(* returned with min_yoe and max_yoe absent.                               *)
C22_NothingFoundStillFetched ==
    PageScraped =>
        /\ SalaryOccurrences(FetchedSalaryText) = {} =>
                /\ Fetched
                /\ ret.val.val.min_pay_cents = None
                /\ ret.val.val.max_pay_cents = None
        /\ ~HasYearMention(arg.driver.desc) =>
                /\ Fetched
                /\ ret.val.val.min_yoe = None
                /\ ret.val.val.max_yoe = None

C22_Witness ==
    /\ Fetched
    /\ arg.driver.salary = None
    /\ arg.driver.desc = "5 yrs, hybrid"
    /\ ret.val.val.min_pay_cents = None /\ ret.val.val.max_pay_cents = None
    /\ ret.val.val.min_yoe = None /\ ret.val.val.max_yoe = None

(***************************************************************************)
(* format_comma_separated                                                  *)
(***************************************************************************)
(* str.split(','): the parts between the commas, one more than the commas *)
RECURSIVE Split(_)
Split(str) ==
    LET i == IndexOf(",", str, 1)
    IN  IF i = 0 THEN <<str>>
        ELSE <<SubSeq(str, 1, i - 1)>> \o Split(SubSeq(str, i + 1, Len(str)))

Whitespace == {" ", "\t", "\n", "\r"}

(* s.trim() *)
RECURSIVE Trim(_)
Trim(s) ==
    IF s # "" /\ Char(s, 1) \in Whitespace THEN Trim(SubSeq(s, 2, Len(s)))
    ELSE IF s # "" /\ Char(s, Len(s)) \in Whitespace THEN Trim(SubSeq(s, 1, Len(s) - 1))
    ELSE s

RECURSIVE CapitalizedEvery(_)
CapitalizedEvery(chars) ==
    IF chars = "" THEN ""
    ELSE CharToUpper(Char(chars, 1)) \o CapitalizedEvery(SubSeq(chars, 2, Len(chars)))

(* the first character in upper case, then the others as they are *)
Capitalized(chars) ==
    IF chars = "" THEN ""
    ELSE CharToUpper(Char(chars, 1)) \o SubSeq(chars, 2, Len(chars))

FormatEntryUntrimmed(s) == Capitalized(s)

FormatEntry(s) == Capitalized(Trim(s))

format_comma_separated(str) ==
    LET parts == Split(str)
    IN  Join([ k \in 1 .. Len(parts) |-> FormatEntry(parts[k]) ], ", ")

(***************************************************************************)
(* The lists format_comma_separated is applied to: every string of up to   *)
(* MaxListLen of the characters of ListChars, and the lists of             *)
(* ListExamples.                                                           *)
(***************************************************************************)
MaxListLen == 5

ListChars == {"a", "B", " ", ","}

ListExamples == {"  python, sql,Go ", "rust,\tgo ,", " , "}

ListTexts ==
    UNION { { Join(cs, "") : cs \in [1 .. n -> ListChars] } : n \in 0 .. MaxListLen }
        \cup ListExamples

ListInit ==
    /\ pc = "call"
    /\ arg \in ListTexts
    /\ ret = <<>>

FormatCommaSeparated ==
    /\ pc = "call"
    /\ ret' = format_comma_separated(arg)
    /\ pc' = "done"
    /\ UNCHANGED arg

ListNext == FormatCommaSeparated

SpecList == ListInit /\ [][ListNext]_vars

(* C10: formatting a formatted list changes nothing.                       *)
C10_Idempotent ==
    pc = "done" => format_comma_separated(ret) = ret

C10_Witness ==
    /\ pc = "done"
    /\ arg = " a,,B"
    /\ ret = "A, , B"
    /\ format_comma_separated(ret) = ret

(* The commas of a list, and its entries: what stands between two commas    *)
(* that follow each other, before the first and after the last.            *)
CommasOf(s) == { i \in 1 .. Len(s) : Char(s, i) = "," }

EntryCount(s) == Cardinality(CommasOf(s)) + 1

CommaNo(s, k) ==
    CHOOSE i \in CommasOf(s) : Cardinality({ j \in CommasOf(s) : j < i }) = k - 1

EntryOf(s, k) ==
    LET lo == IF k = 1 THEN 0 ELSE CommaNo(s, k - 1)
        hi == IF k = EntryCount(s) THEN Len(s) + 1 ELSE CommaNo(s, k)
    IN  SubSeq(s, lo + 1, hi - 1)

(* An entry without the whitespace around it: from its first character     *)
(* that is not whitespace to its last.                                     *)
EntryInner(e) ==
    LET solid == { i \in 1 .. Len(e) : Char(e, i) \notin Whitespace }
    IN  IF solid = {} THEN ""
        ELSE SubSeq(e, SetMin(solid), SetMax(solid))

EntryShown(e) ==
    LET t == EntryInner(e)
    IN  IF t = "" THEN ""
        ELSE CharToUpper(Char(t, 1)) \o SubSeq(t, 2, Len(t))

EntriesShown(s) ==
    LET shown[k \in 0 .. EntryCount(s)] ==
            IF k = 0 THEN ""
            ELSE shown[k - 1] \o (IF k > 1 THEN ", " ELSE "") \o EntryShown(EntryOf(s, k))
    IN  shown[EntryCount(s)]

(* C11: the result has one entry for each entry of the input (one more     *)
(* than its commas), in order and joined with ", "; each is the input      *)
(* entry without the whitespace around it, its first character in upper    *)
(* case and the others unchanged; a blank entry is kept as an empty one.   *)
C11_EntriesTrimmedCapitalized ==
    pc = "done" => ret = EntriesShown(arg)

C11_Witness ==
    /\ pc = "done"
    /\ arg = "  python, sql,Go "
    /\ ret = "Python, Sql, Go"

(***************************************************************************)
(* format_location (utils.rs): the fragments that are not blank, trimmed,  *)
(* joined with ", ".                                                       *)
(***************************************************************************)
RECURSIVE LocationPartsUntrimmed(_)
LocationPartsUntrimmed(fragments) ==
    IF fragments = <<>> THEN <<>>
    ELSE (IF Trim(Head(fragments)) = "" THEN <<>> ELSE <<Head(fragments)>>)
             \o LocationPartsUntrimmed(Tail(fragments))

RECURSIVE LocationPartsWithBlanks(_)
LocationPartsWithBlanks(fragments) ==
    IF fragments = <<>> THEN <<>>
    ELSE <<Trim(Head(fragments))>> \o LocationPartsWithBlanks(Tail(fragments))

(* .filter(|s| !s.trim().is_empty()).map(|s| s.trim()) *)
RECURSIVE LocationParts(_)
LocationParts(fragments) ==
    IF fragments = <<>> THEN <<>>
    ELSE (IF Trim(Head(fragments)) = "" THEN <<>> ELSE <<Trim(Head(fragments))>>)
             \o LocationParts(Tail(fragments))

format_location(city, region, country) ==
    Join(LocationParts(<<city, region, country>>), ", ")

(***************************************************************************)
(* The fragments format_location is applied to: every string of up to      *)
(* MaxFragmentLen of the characters of FragmentChars, and the fragments of *)
(* FragmentExamples.                                                       *)
(***************************************************************************)
MaxFragmentLen == 2

FragmentChars == {"a", " ", ","}

FragmentExamples == {"Remote", " USA ", "\tParis\n", ", x", "a, , b"}

LocationFragments ==
    UNION { { Join(cs, "") : cs \in [1 .. n -> FragmentChars] } : n \in 0 .. MaxFragmentLen }
        \cup FragmentExamples

LocationInit ==
    /\ pc = "call"
    /\ arg \in [city : LocationFragments, region : LocationFragments,
                country : LocationFragments]
    /\ ret = <<>>

FormatLocation ==
    /\ pc = "call"
    /\ ret' = format_location(arg.city, arg.region, arg.country)
    /\ pc' = "done"
    /\ UNCHANGED arg

LocationNext == FormatLocation

SpecLocation == LocationInit /\ [][LocationNext]_vars

(* C12: the result is made of the fragments that are not blank, each       *)
(* without the whitespace around it, in the order city, region, country,   *)
(* with ", " between two that follow each other; it is empty when all      *)
(* three are blank.                                                        *)
C12_NonBlankFragmentsJoined ==
    pc = "done" =>
        LET c == EntryInner(arg.city)
            r == EntryInner(arg.region)
            k == EntryInner(arg.country)
        IN  ret = c \o (IF c # "" /\ (r # "" \/ k # "") THEN ", " ELSE "")
                    \o r \o (IF r # "" /\ k # "" THEN ", " ELSE "")
                    \o k

C12_Witness ==
    /\ pc = "done"
    /\ arg = [city |-> "", region |-> "Remote", country |-> " USA "]
    /\ ret = "Remote, USA"

EndsWith(s, sub) ==
    Len(sub) <= Len(s) /\ SubSeq(s, Len(s) - Len(sub) + 1, Len(s)) = sub

NoStraySeparator(s) ==
    /\ ~StartsWithAt(s, 1, ", ")
    /\ ~EndsWith(s, ", ")
    /\ ~Contains(s, ", , ", 1)

(* C13 as stated: whatever the three fragments are, the result does not    *)
(* start with ", ", does not end with it and never has ", , ".             *)
C13_NoStraySeparator ==
    pc = "done" => NoStraySeparator(ret)

FragmentHasSeparator(s) ==
    StartsWithAt(EntryInner(s), 1, ", ") \/ Contains(EntryInner(s), ", , ", 1)

(* C13, amended: when no fragment, without the whitespace around it,       *)
(* itself starts with ", " or contains ", , ", the result does not start   *)
(* with ", ", does not end with it and never has ", , ", whichever of the  *)
(* three fragments are blank.                                              *)
C13_NoStraySeparatorFromBlanks ==
    pc = "done" /\ ~FragmentHasSeparator(arg.city) /\ ~FragmentHasSeparator(arg.region)
                /\ ~FragmentHasSeparator(arg.country)
        => NoStraySeparator(ret)

C13_Witness ==
    /\ pc = "done"
    /\ arg = [city |-> "\tParis\n", region |-> " ", country |-> " USA "]
    /\ ret = "Paris, USA"
    /\ NoStraySeparator(ret)

(***************************************************************************)
(* Calendar dates (chrono::NaiveDate, proleptic Gregorian) and the days    *)
(* between a date and 1970-01-01.                                          *)
(***************************************************************************)
NaiveDate(y, m, d) == [year |-> y, month |-> m, day |-> d]

IsLeapYear(y) == y % 4 = 0 /\ (y % 100 # 0 \/ y % 400 = 0)

DaysInMonth(y, m) ==
    IF m = 2 THEN (IF IsLeapYear(y) THEN 29 ELSE 28)
    ELSE IF m \in {4, 6, 9, 11} THEN 30 ELSE 31

IsDate(y, m, d) == m \in 1 .. 12 /\ d >= 1 /\ d <= DaysInMonth(y, m)

(* the years of NaiveDate::MIN and NaiveDate::MAX *)
NaiveDateMinYear == -262143
NaiveDateMaxYear == 262142

SecondsPerDay == 86400

(* days from 1970-01-01 to the date, by 400-year eras starting in March *)
DaysOfEra(y, m, d) ==
    (y \div 400) * 146097
        + (y % 400) * 365 + (y % 400) \div 4 - (y % 400) \div 100
        + (153 * (IF m > 2 THEN m - 3 ELSE m + 9) + 2) \div 5 + d - 1
        - 719468

DaysFromCivil(date) ==
    DaysOfEra(IF date.month <= 2 THEN date.year - 1 ELSE date.year, date.month, date.day)

CivilOfMp(y, doy, mp) ==
    NaiveDate(IF mp < 10 THEN y ELSE y + 1,
              IF mp < 10 THEN mp + 3 ELSE mp - 9,
              doy - (153 * mp + 2) \div 5 + 1)

CivilOfDoy(y, doy) == CivilOfMp(y, doy, (5 * doy + 2) \div 153)

CivilOfYoe(era, doe, yoe) ==
    CivilOfDoy(yoe + era * 400, doe - (365 * yoe + yoe \div 4 - yoe \div 100))

CivilOfEra(era, doe) ==
    CivilOfYoe(era, doe,
               (doe - doe \div 1460 + doe \div 36524 - doe \div 146096) \div 365)

(* the date a number of days after 1970-01-01 *)
CivilFromDays(days) ==
    CivilOfEra((days + 719468) \div 146097, (days + 719468) % 146097)

(***************************************************************************)
(* NullableSqliteDateTime (db/mod.rs): an optional date, stored as the     *)
(* Unix time of its midnight in UTC. Timestamps are i64.                   *)
(***************************************************************************)
BigOfNat(n) == BigFromDec(ToString(n))

(* the value of a number of at most two limbs *)
BigToNat(a) == Limb(a, 1) + Limb(a, 2) * BigBase

(* NaiveDateTime::new(date, NaiveTime::MIN).and_utc().timestamp() *)
MidnightTimestampOfDays(days) ==
    IF days < 0 THEN I64(TRUE, BigMulSmall(BigOfNat(0 - days), SecondsPerDay))
    ELSE I64(FALSE, BigMulSmall(BigOfNat(days), SecondsPerDay))

MidnightTimestamp(date) == MidnightTimestampOfDays(DaysFromCivil(date))

timestamp(self) ==
    IF self.some THEN Some(MidnightTimestamp(self.val)) ELSE None

DaysTowardZero(neg, d) ==
    [wide |-> Len(d.q) > 2,
     days |-> IF neg THEN 0 - BigToNat(d.q) ELSE BigToNat(d.q),
     secs |-> d.r]

(* secs.div_euclid(86_400) and secs.rem_euclid(86_400) *)
DaysEuclid(neg, d) ==
    [wide |-> Len(d.q) > 2,
     days |-> IF ~neg THEN BigToNat(d.q)
              ELSE IF d.r = 0 THEN 0 - BigToNat(d.q)
              ELSE 0 - BigToNat(d.q) - 1,
     secs |-> IF ~neg \/ d.r = 0 THEN d.r ELSE SecondsPerDay - d.r]

DateTimeOfDays(f) ==
    IF f.wide THEN None
    ELSE IF f.days < DaysFromCivil(NaiveDate(NaiveDateMinYear, 1, 1)) THEN None
    ELSE IF f.days > DaysFromCivil(NaiveDate(NaiveDateMaxYear, 12, 31)) THEN None
    ELSE Some([date |-> CivilFromDays(f.days), secs |-> f.secs])

(* DateTime::from_timestamp(ts, 0): None outside the dates of NaiveDate *)
from_timestamp(ts) ==
    DateTimeOfDays(DaysEuclid(ts.neg, BigDivSmall(ts.mag, SecondsPerDay)))

(* ret.as_ref().map(DateTime::date_naive) *)
DateNaive(dt) == IF dt.some THEN Some(dt.val.date) ELSE None

(* From<Option<i64>> for NullableSqliteDateTime *)
from_option_i64(value) ==
    IF value.some THEN DateNaive(from_timestamp(value.val)) ELSE None

DecodeTimestamp(date) ==
    IF date.some THEN Ok(date) ELSE Err("Invalid timestamp")

(* Decode<Sqlite> for NullableSqliteDateTime *)
decode(value) ==
    IF value.some THEN DecodeTimestamp(DateNaive(from_timestamp(value.val)))
    ELSE Ok(None)

(* Encode<Sqlite> for NullableSqliteDateTime: None is NULL *)
encode_by_ref(self) ==
    IF self.some THEN Some(MidnightTimestamp(self.val)) ELSE None

(***************************************************************************)
(* A date written to its column and read back, and a column value read and *)
(* written back. The dates are those of StoreYears; the column values are  *)
(* NULL, the seconds StoreSeconds of the days StoreDays, and StoreWide.    *)
(***************************************************************************)
StoreYears == {-262143, -1, 0, 1969, 1970, 2024, 2100, 262142}

StoreDates ==
    { NaiveDate(y, m, d) : <<y, m, d>> \in
        { t \in StoreYears \X (1 .. 12) \X {1, 28, 29, 30, 31} : IsDate(t[1], t[2], t[3]) } }

MaxStoreDay == 2

StoreDays == (0 - MaxStoreDay) .. MaxStoreDay \cup {19884, 19885, -24855, 24854}

StoreSeconds == {0, 1, 43200, 86399}

StoreWide ==
    { I64Max, I64Min,
      I64(FALSE, BigFromDec("1000000000000")), I64(TRUE, BigFromDec("1000000000000")),
      I64(FALSE, BigFromDec("10000000000000")), I64(TRUE, BigFromDec("10000000000000")) }

StoreTimestamps ==
    { I64Of(d * SecondsPerDay + sec) : d \in StoreDays, sec \in StoreSeconds }
        \cup StoreWide

StoreInit ==
    /\ pc = "call"
    /\ arg \in [is : {"date"}, value : {None} \cup { Some(d) : d \in StoreDates }]
          \cup [is : {"column"}, value : {None} \cup { Some(t) : t \in StoreTimestamps }]
    /\ ret = <<>>

(* the value an operation of the second step works on *)
Loaded == IF ret[1].fn = "decode" THEN ret[1].out.val ELSE ret[1].out

Timestamp ==
    \/ /\ pc = "call" /\ arg.is = "date"
       /\ ret' = <<[fn |-> "timestamp", out |-> timestamp(arg.value)]>>
       /\ pc' = "stored"
       /\ UNCHANGED arg
    \/ /\ pc = "loaded"
       /\ ret' = Append(ret, [fn |-> "timestamp", out |-> timestamp(Loaded)])
       /\ pc' = "done"
       /\ UNCHANGED arg

EncodeByRef ==
    \/ /\ pc = "call" /\ arg.is = "date"
       /\ ret' = <<[fn |-> "encode", out |-> encode_by_ref(arg.value)]>>
       /\ pc' = "stored"
       /\ UNCHANGED arg
    \/ /\ pc = "loaded"
       /\ ret' = Append(ret, [fn |-> "encode", out |-> encode_by_ref(Loaded)])
       /\ pc' = "done"
       /\ UNCHANGED arg

FromOptionI64 ==
    \/ /\ pc = "call" /\ arg.is = "column"
       /\ ret' = <<[fn |-> "from", out |-> from_option_i64(arg.value)]>>
       /\ pc' = "loaded"
       /\ UNCHANGED arg
    \/ /\ pc = "stored"
       /\ ret' = Append(ret, [fn |-> "from", out |-> from_option_i64(ret[1].out)])
       /\ pc' = "done"
       /\ UNCHANGED arg

Decode ==
    \/ /\ pc = "call" /\ arg.is = "column"
       /\ ret' = <<[fn |-> "decode", out |-> decode(arg.value)]>>
       /\ pc' = IF decode(arg.value).ok THEN "loaded" ELSE "failed"
       /\ UNCHANGED arg
    \/ /\ pc = "stored"
       /\ ret' = Append(ret, [fn |-> "decode", out |-> decode(ret[1].out)])
       /\ pc' = "done"
       /\ UNCHANGED arg

StoreNext == Timestamp \/ EncodeByRef \/ FromOptionI64 \/ Decode

SpecStore == StoreInit /\ [][StoreNext]_vars

(* The Unix time of the midnight a date starts with, counted from the      *)
(* lengths of the years and months before it.                              *)
DaysBeforeYear(y) ==
    365 * (y - 1) + (y - 1) \div 4 - (y - 1) \div 100 + (y - 1) \div 400

DayOfYear(date) ==
    LET before[m \in 1 .. 12] ==
            IF m = 1 THEN 0 ELSE before[m - 1] + DaysInMonth(date.year, m - 1)
    IN  before[date.month] + date.day

UnixDay(date) == DaysBeforeYear(date.year) + DayOfYear(date) - 1 - DaysBeforeYear(1970)

UnixMidnight(date) ==
    LET n == UnixDay(date)
        mag == BigMulSmall(BigMulSmall(BigOfNat(IF n < 0 THEN 0 - n ELSE n), 864), 100)
    IN  I64(n < 0, mag)

IsMidnight(t) == BigDivSmall(t.mag, SecondsPerDay).r = 0

(* m is t truncated down to the midnight of its day: m <= t < m + 86400 *)
IsMidnightBefore(m, t) ==
    /\ IsMidnight(m)
    /\ ~I64Less(t, m)
    /\ I64Less(t, IF m.neg THEN I64(TRUE, BigNorm(BigSubAbs(m.mag, BigOfNat(SecondsPerDay))))
                  ELSE I64(FALSE, BigAdd(m.mag, BigOfNat(SecondsPerDay))))

(* the timestamps of the days NaiveDate has *)
IsDateTimestamp(t) ==
    /\ ~I64Less(t, UnixMidnight(NaiveDate(NaiveDateMinYear, 1, 1)))
    /\ I64Less(t, UnixMidnight(NaiveDate(NaiveDateMaxYear + 1, 1, 1)))

StoredDate == arg.is = "date" /\ Len(ret) >= 1

ReadColumn == arg.is = "column" /\ Len(ret) >= 1

(* the date read in the first step, if one was *)
ReadDate ==
    IF ret[1].fn = "decode" THEN (IF ret[1].out.ok THEN ret[1].out.val ELSE None)
    ELSE ret[1].out

(* what the second step reads back from the stored value *)
ReadBack == IF ret[2].fn = "decode" THEN ret[2].out.val ELSE ret[2].out

DateRoundTrip ==
    /\ StoredDate /\ arg.value.some =>
           /\ ret[1].out = Some(UnixMidnight(arg.value.val))
           /\ IsMidnight(ret[1].out.val)
    /\ StoredDate /\ ~arg.value.some => ret[1].out = None
    /\ StoredDate /\ pc = "done" =>
           /\ ret[2].fn = "decode" => ret[2].out.ok
           /\ ReadBack = arg.value

AbsentColumnRoundTrip ==
    ReadColumn /\ ~arg.value.some =>
        /\ pc # "failed"
        /\ ReadDate = None
        /\ pc = "done" => ret[2].out = None

ColumnTruncated ==
    /\ pc # "failed"
    /\ ReadDate.some
    /\ pc = "done" => ret[2].out.some /\ IsMidnightBefore(ret[2].out.val, arg.value.val)

(* C18 as stated: a date is stored as the Unix time of its midnight in     *)
(* UTC and read back as itself, an absent date as absent, and every        *)
(* timestamp read and stored again is truncated down to its midnight.      *)
C18_AnyTimestampTruncated ==
    /\ DateRoundTrip
    /\ AbsentColumnRoundTrip
    /\ ReadColumn /\ arg.value.some => ColumnTruncated

(* C18, amended: a date is stored as the Unix time of its midnight in UTC  *)
(* (a multiple of 86400) and read back as itself, an absent date as        *)
(* absent; a timestamp within the days NaiveDate has, read and stored      *)
(* again, is truncated down to the midnight of its day; any other          *)
(* timestamp is not read as a date.                                        *)
C18_DateTimestampTruncated ==
    /\ DateRoundTrip
    /\ AbsentColumnRoundTrip
    /\ ReadColumn /\ arg.value.some /\ IsDateTimestamp(arg.value.val) => ColumnTruncated
    /\ ReadColumn /\ arg.value.some /\ ~IsDateTimestamp(arg.value.val) => ~ReadDate.some

C18_Witness ==
    /\ pc = "done"
    /\ arg = [is |-> "column", value |-> Some(I64Of(-1))]
    /\ ret[1] = [fn |-> "decode", out |-> Ok(Some(NaiveDate(1969, 12, 31)))]
    /\ ret[2] = [fn |-> "encode", out |-> Some(I64Of(-86400))]

(***************************************************************************)
(* NullableSqliteDateTime::from_iso_str (db/mod.rs): the date, in UTC, of  *)
(* an RFC 3339 timestamp, read as DateTime::parse_from_rfc3339 reads it:   *)
(* YYYY-MM-DD, one of T, t or space, hh:mm:ss, an optional fraction, and Z *)
(* or z or a signed hh:mm offset, with nothing after it.                   *)
(***************************************************************************)
(* scan::number(s, n, n) at position i: exactly n digits, -1 without them *)
ScanNumber(s, i, n) ==
    IF i + n - 1 <= Len(s) /\ DigitRun(SubSeq(s, i, i + n - 1), 1) = n
    THEN DecValue(SubSeq(s, i, i + n - 1), 1, 0)
    ELSE -1

Rfc3339Fields(s) ==
    [year |-> ScanNumber(s, 1, 4), month |-> ScanNumber(s, 6, 2),
     day |-> ScanNumber(s, 9, 2), hour |-> ScanNumber(s, 12, 2),
     minute |-> ScanNumber(s, 15, 2), second |-> ScanNumber(s, 18, 2)]

Rfc3339Punctuated(s) ==
    /\ Char(s, 5) = "-" /\ Char(s, 8) = "-"
    /\ Char(s, 11) \in {"T", "t", " "}
    /\ Char(s, 14) = ":" /\ Char(s, 17) = ":"

(* where the offset starts, after the fraction if there is one; 0 when a   *)
(* point is followed by no digit                                           *)
Rfc3339OffsetStart(s) ==
    IF Char(s, 20) # "." THEN 20
    ELSE IF DigitRun(s, 21) = 0 THEN 0
    ELSE 21 + DigitRun(s, 21)

TimezoneNumeric(s, j, hours, minutes) ==
    IF hours < 0 \/ Char(s, j + 3) # ":" \/ minutes < 0 \/ minutes > 59
    THEN [ok |-> FALSE]
    ELSE [ok |-> TRUE, end |-> j + 6,
          secs |-> IF Char(s, j) = "-" THEN 0 - (hours * 3600 + minutes * 60)
                   ELSE hours * 3600 + minutes * 60]

(* scan::timezone_offset at position j, Z allowed, the colon required *)
TimezoneOffset(s, j) ==
    IF Char(s, j) \in {"Z", "z"} THEN [ok |-> TRUE, end |-> j + 1, secs |-> 0]
    ELSE IF Char(s, j) \in {"+", "-"}
    THEN TimezoneNumeric(s, j, ScanNumber(s, j + 1, 2), ScanNumber(s, j + 4, 2))
    ELSE [ok |-> FALSE]

MaxRfc3339Offset == (23 * 60 + 59) * 60

(* Parsed::to_datetime: the fields are a date and a time of day; second 60 *)
(* is a leap second, kept within second 59                                 *)
Rfc3339DateTime(f, off) ==
    IF /\ f.year >= 0 /\ f.month >= 0 /\ f.day >= 0
       /\ IsDate(f.year, f.month, f.day)
       /\ f.hour \in 0 .. 23 /\ f.minute \in 0 .. 59 /\ f.second \in 0 .. 60
    THEN Ok([date |-> NaiveDate(f.year, f.month, f.day),
             secs |-> f.hour * 3600 + f.minute * 60
                        + (IF f.second = 60 THEN 59 ELSE f.second),
             offset |-> off.secs])
    ELSE Err("ParseError")

Rfc3339WithOffset(s, off) ==
    IF /\ off.ok /\ off.end = Len(s) + 1
       /\ off.secs >= 0 - MaxRfc3339Offset /\ off.secs <= MaxRfc3339Offset
    THEN Rfc3339DateTime(Rfc3339Fields(s), off)
    ELSE Err("ParseError")

(* DateTime::parse_from_rfc3339: the local date, the second of the day and *)
(* the offset from UTC in seconds                                          *)
parse_from_rfc3339(s) ==
    IF Rfc3339Punctuated(s) /\ Rfc3339OffsetStart(s) # 0
    THEN Rfc3339WithOffset(s, TimezoneOffset(s, Rfc3339OffsetStart(s)))
    ELSE Err("ParseError")

LocalDate(dt) == dt.date

(* .with_timezone(&Utc), then date_naive() *)
UtcDate(dt) ==
    CivilFromDays(DaysFromCivil(dt.date) + (dt.secs - dt.offset) \div SecondsPerDay)

IsoDate(parsed) ==
    IF parsed.ok THEN Ok(Some(UtcDate(parsed.val)))
    ELSE Err("panicked: Failed to parse iso string")

from_iso_str(s) == IsoDate(parse_from_rfc3339(s))

(***************************************************************************)
(* The texts from_iso_str is applied to: a date, a separator, a time and   *)
(* an offset, each well formed or not, and the texts of IsoWords.          *)
(***************************************************************************)
IsoDates ==
    {"2024-06-10", "2024-02-29", "2023-02-29", "1970-01-01", "0000-01-01",
     "9999-12-31", "2024-12-31", "2024-13-01", "2024-00-10", "2024-6-10",
     "24-06-10", "2024/06/10"}

IsoSeparators == {"T", "t", "", "_"}

IsoTimes ==
    {"00:00:00", "00:29:59", "12:00:00", "23:30:00", "23:59:60", "12:00:00.123",
     "23:59:59.999999999999", "24:00:00", "12:60:00", "12:00", "12:00:00.", "1:00:00"}

IsoOffsets ==
    {"Z", "z", "+00:00", "-00:00", "-05:00", "+05:30", "-23:59", "+23:59", "",
     "+24:00", "-05:60", "+0530", "+05", " Z", "Zz"}

IsoWords == {"", "not a date", "today", "1718020800"}

IsoTexts ==
    { d \o p \o t \o o : <<d, p, t, o>> \in IsoDates \X IsoSeparators \X IsoTimes \X IsoOffsets }
        \cup IsoWords

IsoInit ==
    /\ pc = "call"
    /\ arg \in IsoTexts
    /\ ret = <<>>

FromIsoStr ==
    /\ pc = "call"
    /\ ret' = from_iso_str(arg)
    /\ pc' = "done"
    /\ UNCHANGED arg

IsoNext == FromIsoStr

SpecIso == IsoInit /\ [][IsoNext]_vars

(* A well-formed RFC 3339 timestamp with a fraction of f characters (the   *)
(* point included) and an offset of z characters.                          *)
DigitsAt(s, i, n) == \A k \in i .. i + n - 1 : Char(s, k) \in Digits

NumberAt(s, i, n) == DecValue(SubSeq(s, i, i + n - 1), 1, 0)

IsRfc3339Shape(s, f, z) ==
    /\ Len(s) = 19 + f + z
    /\ DigitsAt(s, 1, 4) /\ Char(s, 5) = "-" /\ DigitsAt(s, 6, 2) /\ Char(s, 8) = "-"
    /\ DigitsAt(s, 9, 2) /\ Char(s, 11) \in {"T", "t"}
    /\ DigitsAt(s, 12, 2) /\ Char(s, 14) = ":" /\ DigitsAt(s, 15, 2) /\ Char(s, 17) = ":"
    /\ DigitsAt(s, 18, 2)
    /\ f > 0 => f >= 2 /\ Char(s, 20) = "." /\ DigitsAt(s, 21, f - 1)
    /\ z = 1 => Char(s, 20 + f) \in {"Z", "z"}
    /\ z = 6 => /\ Char(s, 20 + f) \in {"+", "-"}
                /\ DigitsAt(s, 21 + f, 2) /\ Char(s, 23 + f) = ":" /\ DigitsAt(s, 24 + f, 2)

IsRfc3339Values(s, f, z) ==
    /\ NumberAt(s, 6, 2) \in 1 .. 12
    /\ NumberAt(s, 9, 2) \in 1 .. DaysInMonth(NumberAt(s, 1, 4), NumberAt(s, 6, 2))
    /\ NumberAt(s, 12, 2) <= 23 /\ NumberAt(s, 15, 2) <= 59 /\ NumberAt(s, 18, 2) <= 60
    /\ z = 6 => NumberAt(s, 21 + f, 2) <= 23 /\ NumberAt(s, 24 + f, 2) <= 59

IsRfc3339(s) ==
    \E f \in 0 .. Len(s), z \in {1, 6} : IsRfc3339Shape(s, f, z) /\ IsRfc3339Values(s, f, z)

(* the seconds from the midnight the written date starts with, in UTC, to  *)
(* the instant written (second 60 within second 59)                        *)
Rfc3339SecondsOfDay(s) ==
    LET sec == NumberAt(s, 18, 2)
        sign == Char(s, Len(s) - 5)
        off == IF sign \in {"+", "-"}
               THEN NumberAt(s, Len(s) - 4, 2) * 3600 + NumberAt(s, Len(s) - 1, 2) * 60
               ELSE 0
        local == NumberAt(s, 12, 2) * 3600 + NumberAt(s, 15, 2) * 60
                    + (IF sec = 60 THEN 59 ELSE sec)
    IN  IF sign = "+" THEN local - off ELSE local + off

Rfc3339WrittenDate(s) ==
    NaiveDate(NumberAt(s, 1, 4), NumberAt(s, 6, 2), NumberAt(s, 9, 2))

(* date is the day, in UTC, of the instant s writes *)
IsUtcDateOf(date, s) ==
    \E k \in {-1, 0, 1} :
        /\ Rfc3339SecondsOfDay(s) - k * SecondsPerDay \in 0 .. SecondsPerDay - 1
        /\ UnixDay(date) = UnixDay(Rfc3339WrittenDate(s)) + k

CompanyId(name, companies) ==
    IF \E i \in 1 .. Len(companies) : companies[i] = name
    THEN Some(CHOOSE i \in 1 .. Len(companies) : companies[i] = name)
    ELSE None

(* the company of the hit, inserted when the table has none of its name *)
CompaniesAfter(name, companies) ==
    IF CompanyId(name, companies).some THEN companies ELSE Append(companies, name)

(* (months as f64 / 12.0).round() as i64, for months far below 2^50: the   *)
(* quotient is nearer to the twelfths than to any half                     *)
YearsOfMonths(months) ==
    IF months < 0 THEN I64Of(0 - ((2 * (0 - months) + 12) \div 24))
    ELSE I64Of((2 * months + 12) \div 24)

ApiYoe(months) == IF months.some THEN Some(YearsOfMonths(months.val)) ELSE None

(* .map(|dollars| (dollars * 100.0) as i64) *)
ApiPay(dollars) ==
    IF dollars.some THEN Some(F64AsI64(F64Times100(dollars.val))) ELSE None

(* loc_type.replace('-', "") *)
RECURSIVE WithoutHyphens(_)
WithoutHyphens(s) ==
    IF s = "" THEN ""
    ELSE (IF Char(s, 1) = "-" THEN "" ELSE Char(s, 1)) \o WithoutHyphens(SubSeq(s, 2, Len(s)))

(* format!("{}{}", &s[0..1].to_uppercase(), &s[1..]): the slice panics on  *)
(* an empty string                                                         *)
ApiLocTypeOf(s) ==
    IF s = "" THEN Err("panicked: byte index 1 is out of bounds")
    ELSE Ok(CharToUpper(Char(s, 1)) \o SubSeq(s, 2, Len(s)))

ApiLocType(workplace_type) ==
    IF workplace_type.some THEN ApiLocTypeOf(WithoutHyphens(workplace_type.val))
    ELSE Ok("Unknown")

(* JobPostLocationType::from(String) *)
JobPostLocationTypeFrom(value) ==
    IF value \in {"Onsite", "Hybrid", "Remote", "Unknown"} THEN Ok(value)
    ELSE Err("panicked: Expected JobPostLocationType, got " \o value \o " instead")

ApiSkills(skills) == IF skills.some THEN Some(Join(skills.val, ",")) ELSE None

OrEmpty(str) == IF str.some THEN str.val ELSE ""

ApiJobPost(job, company_id, location_type, date_posted, now) ==
    [id |-> 0,
     company_id |-> company_id,
     location |-> format_location(OrEmpty(job.city), OrEmpty(job.region), job.country),
     location_type |-> location_type,
     url |-> job.url,
     min_yoe |-> ApiYoe(job.experience_requirements_months),
     max_yoe |-> None,
     min_pay_cents |-> ApiPay(job.base_salary_min_value),
     max_pay_cents |-> ApiPay(job.base_salary_max_value),
     date_posted |-> date_posted,
     date_retrieved |-> now,
     job_title |-> job.title,
     benefits |-> None,
     skills |-> ApiSkills(job.skills_requirements),
     pay_unit |-> job.base_salary_unit,
     currency |-> job.base_salary_currency,
     apijobs_id |-> Some(job.id)]

ApiPostDated(job, company_id, location_type, date_posted, now) ==
    IF ~date_posted.ok THEN date_posted
    ELSE Ok(ApiJobPost(job, company_id, location_type.val, date_posted.val, now))

ApiPostTyped(job, company_id, location_type, now) ==
    IF ~location_type.ok THEN location_type
    ELSE ApiPostDated(job, company_id, location_type, from_iso_str(job.published_at), now)

ApiPostLocated(job, company_id, loc_type, now) ==
    IF ~loc_type.ok THEN loc_type
    ELSE ApiPostTyped(job, company_id, JobPostLocationTypeFrom(loc_type.val), now)

(* the job post, or the panic that ends the conversion, and the company    *)
(* table after it                                                          *)
into_job_post(job, companies, now) ==
    [post |-> ApiPostLocated(job,
                             CompanyId(job.hiring_organization_name,
                                       CompaniesAfter(job.hiring_organization_name,
                                                      companies)).val,
                             ApiLocType(job.workplace_type), now),
     companies |-> CompaniesAfter(job.hiring_organization_name, companies)]

(***************************************************************************)
(* The hits into_job_post is applied to.                                   *)
(***************************************************************************)
ApiDollars == {"0.29", "0.58", "19.99", "1.005", "85000", "85000.5", "1e17"}

ApiMonths == {0, 5, 6, 18, 30}

ApiWorkplaceTypes == {"remote", "on-site", "hybrid", "", "field"}

ApiPublished == {"2024-06-10T23:30:00-05:00", "2024-06-10T12:00:00Z", "2024-06-10"}

OptionOf(S) == {None} \cup { Some(v) : v \in S }

ApiJobs ==
    [id : {"job-1"},
     title : {"Engineer"},
     workplace_type : OptionOf(ApiWorkplaceTypes),
     hiring_organization_name : {"Acme"},
     country : {"USA"},
     region : OptionOf({"CA"}),
     city : OptionOf({" "}),
     base_salary_currency : {Some("USD")},
     base_salary_min_value : OptionOf({ ParseF64(t).val : t \in ApiDollars }),
     base_salary_max_value : OptionOf({ ParseF64(t).val : t \in {"19.99", "120000"} }),
     base_salary_unit : {Some("year")},
     experience_requirements_months : OptionOf(ApiMonths),
     skills_requirements : OptionOf({<<"rust", "go">>}),
     website : {"https://acme.example"},
     url : {"https://jobs.example/1"},
     published_at : ApiPublished]

ApiInit ==
    /\ pc = "call"
    /\ arg \in [job : ApiJobs, companies : {<<>>, <<"Initech", "Acme">>},
                now : {I64Of(1718020800)}]
    /\ ret = <<>>

IntoJobPost ==
    /\ pc = "call"
    /\ ret' = into_job_post(arg.job, arg.companies, arg.now)
    /\ pc' = "done"
    /\ UNCHANGED arg

ApiNext == IntoJobPost

SpecApi == ApiInit /\ [][ApiNext]_vars

(* the cents into_job_post gives are those of the dollars of the hit *)
ApiCentsRounded(dollars, cents) ==
    dollars.some /\ ~CentsOverflow(dollars.val) =>
        /\ cents.some
        /\ ~cents.val.neg
        /\ NearestCents(cents.val.mag, dollars.val)

(* C14: every cents amount derived from a dollar amount is the dollars     *)
(* times 100 rounded to the nearest integer, the salary bounds imported    *)
(* from the job-search API included.                                       *)
C14_ApiCentsRounded ==
    pc = "done" /\ ret.post.ok =>
        /\ ApiCentsRounded(arg.job.base_salary_min_value, ret.post.val.min_pay_cents)
        /\ ApiCentsRounded(arg.job.base_salary_max_value, ret.post.val.max_pay_cents)

(***************************************************************************)
(* get_pay_str (utils.rs): the cents as dollars with two decimals,         *)
(* format!("{:.2}", num as f64 / 100.0); nothing for an absent amount.     *)
(***************************************************************************)
(* num as f64 *)
I64AsF64(num) == F64Nearest(num.neg, num.mag, 0, 0)

(* x / 100.0, for a finite x *)
F64Div100(x) == F64Nearest(x.neg, x.man, x.exp - 2, 2)

(* q, or q + 1 when what was cut off is more than a half, or a half and q  *)
(* is odd                                                                  *)
HalfEven(sh, q) ==
    IF BigIsOdd(sh.q) /\ (sh.sticky \/ BigIsOdd(q)) THEN BigAdd(q, <<1>>) ELSE q

HundredthsShifted(sh) == HalfEven(sh, BigDivSmall(sh.q, 2).q)

(* |x| * 100 rounded to an integer, ties to even: the digits {:.2} prints *)
F64Hundredths(x) ==
    IF x.exp >= 0 THEN BigMulPow2(BigMulSmall(x.man, 100), x.exp)
    ELSE HundredthsShifted(BigShiftRight(BigMulSmall(x.man, 100), 0 - x.exp - 1, FALSE))

RECURSIVE FixedTwo(_, _)
FixedTwo(sign, ds) ==
    IF Len(ds) < 3 THEN FixedTwo(sign, "0" \o ds)
    ELSE sign \o SubSeq(ds, 1, Len(ds) - 2) \o "." \o SubSeq(ds, Len(ds) - 1, Len(ds))

(* format!("{:.2}", x), for a finite x *)
F64DisplayTwo(x) == FixedTwo(IF x.neg THEN "-" ELSE "", BigToDec(F64Hundredths(x)))

get_pay_str_zero_for_none(num) ==
    IF num.some THEN F64DisplayTwo(F64Div100(I64AsF64(num.val))) ELSE "0.00"

get_pay_str(num) ==
    IF num.some THEN F64DisplayTwo(F64Div100(I64AsF64(num.val))) ELSE ""

(***************************************************************************)
(* JobHunter (job_hunter.rs): the job post form. In the specifications of  *)
(* the application pc tells whether it is running or has panicked, arg is  *)
(* the message update() was last called with and ret is the JobHunter      *)
(* after it: the fields the form uses, the job posts listed, the job posts *)
(* of the database and the number of filter queries in flight.             *)
(***************************************************************************)
JobPost(id, company_id, location, location_type, url, min_pay_cents, max_pay_cents, job_title, benefits, skills) ==
    [id |-> id, company_id |-> company_id, location |-> location,
     location_type |-> location_type, url |-> url, min_yoe |-> None, max_yoe |-> None,
     min_pay_cents |-> min_pay_cents, max_pay_cents |-> max_pay_cents,
     date_posted |-> None, job_title |-> job_title, benefits |-> benefits,
     skills |-> skills]

hide_modal(self) ==
    [self EXCEPT !.modal = "None", !.company_name = "", !.careers_url = "",
                 !.company_id = None, !.job_post_id = None, !.job_app_id = None,
                 !.job_app_status = None, !.job_title = "", !.min_yoe = None,
                 !.max_yoe = None, !.min_pay = "", !.max_pay = "", !.benefits = "",
                 !.location = "", !.job_posted = None, !.location_type = None,
                 !.skills = "", !.url = "", !.job_post_company = None]

PostAt(posts, id) == CHOOSE i \in 1 .. Len(posts) : posts[i].id = id

HasPost(posts, id) == \E i \in 1 .. Len(posts) : posts[i].id = id

FormIncomplete(self) ==
    \/ self.location_type = None
    \/ self.location = ""
    \/ self.job_title = ""
    \/ self.url = ""

(* match pay.as_str() { "" => None, _ => Some(get_pay_i64(&pay).unwrap()) } *)
FormPay(pay) ==
    IF pay = "" THEN Ok(None)
    ELSE IF get_pay_i64(pay).ok THEN Ok(Some(get_pay_i64(pay).val))
    ELSE Err("panicked: called Result::unwrap() on an Err value")

(* the post of the form: the fields EditJobPost writes over the post *)
EditedPost(self, post) ==
    [post EXCEPT !.location = self.location,
                 !.location_type = self.location_type.val,
                 !.url = self.url,
                 !.min_yoe = self.min_yoe,
                 !.max_yoe = self.max_yoe,
                 !.min_pay_cents = FormPay(self.min_pay).val,
                 !.max_pay_cents = FormPay(self.max_pay).val,
                 !.date_posted = self.job_posted,
                 !.job_title = self.job_title,
                 !.benefits = Some(self.benefits),
                 !.skills = Some(self.skills)]

(* JobPost::update: the row of the same id replaced *)
RowsUpdated(rows, post) ==
    [ i \in 1 .. Len(rows) |-> IF rows[i].id = post.id THEN post ELSE rows[i] ]

(* JobPost::insert: a new row, with the next id *)
RowsInserted(rows, post) ==
    Append(rows, [post EXCEPT !.id = Len(rows) + 1])

CreatedPost(self) ==
    [ JobPost(-1, self.job_post_company.val.id, self.location, self.location_type.val,
              self.url, FormPay(self.min_pay).val, FormPay(self.max_pay).val,
              self.job_title, Some(self.benefits), Some(self.skills))
        EXCEPT !.min_yoe = self.min_yoe, !.max_yoe = self.max_yoe,
               !.date_posted = self.job_posted ]

(***************************************************************************)
(* The application starts with one company and one job post; the form      *)
(* takes the texts of FormTexts and the amounts of FormPays, and the       *)
(* database holds up to MaxJobPosts job posts.                             *)
(***************************************************************************)
MaxJobPosts == 2

FormTexts == {"x"}

FormPays == {"850.50", "abc"}

FormCompanies == <<[id |-> 1, name |-> "Acme"]>>

FormPosts ==
    <<JobPost(1, 1, "x", "Remote", "x", Some(I64Of(85050)), None, "x", Some(""), Some(""))>>

FormInit ==
    /\ pc = "running"
    /\ arg = <<>>
    /\ ret = [modal |-> "None", company_name |-> "", careers_url |-> "",
              company_id |-> None, job_post_id |-> None, job_app_id |-> None,
              job_app_status |-> None, job_app_interviewed |-> FALSE,
              job_title |-> "", min_yoe |-> None,
              max_yoe |-> None, min_pay |-> "", max_pay |-> "", benefits |-> "",
              location |-> "", job_posted |-> None, location_type |-> None,
              skills |-> "", url |-> "", job_post_company |-> None,
              job_posts |-> FormPosts, companies |-> FormCompanies,
              db |-> [job_post |-> FormPosts], filtering |-> 0]

FormOpen == ret.modal \in {"AddJobPostModal", "EditJobPostModal"}

ShowAddJobPostModal ==
    /\ pc = "running" /\ ret.modal = "None"
    /\ arg' = "ShowAddJobPostModal"
    /\ ret' = [ret EXCEPT !.modal = "AddJobPostModal"]
    /\ UNCHANGED pc

ShowEditJobPostModalOf(job_post, company) ==
    [ret EXCEPT !.company_name = company.name,
                !.job_post_id = Some(job_post.id),
                !.company_id = Some(company.id),
                !.job_title = job_post.job_title,
                !.job_posted = job_post.date_posted,
                !.location = job_post.location,
                !.location_type = Some(job_post.location_type),
                !.min_yoe = job_post.min_yoe,
                !.max_yoe = job_post.max_yoe,
                !.min_pay = get_pay_str(job_post.min_pay_cents),
                !.max_pay = get_pay_str(job_post.max_pay_cents),
                !.benefits = OrEmpty(job_post.benefits),
                !.skills = OrEmpty(job_post.skills),
                !.url = job_post.url,
                !.modal = "EditJobPostModal"]

ShowEditJobPostModal ==
    /\ pc = "running" /\ ret.modal = "None"
    /\ \E i \in 1 .. Len(ret.job_posts) :
          /\ arg' = "ShowEditJobPostModal"
          /\ ret' = ShowEditJobPostModalOf(
                        ret.job_posts[i],
                        ret.companies[CHOOSE c \in 1 .. Len(ret.companies) :
                                          ret.companies[c].id = ret.job_posts[i].company_id])
    /\ UNCHANGED pc

HideModal ==
    /\ pc = "running" /\ ret.modal # "None"
    /\ arg' = "HideModal"
    /\ ret' = hide_modal(ret)
    /\ UNCHANGED pc

JobTitleChanged ==
    /\ pc = "running" /\ FormOpen
    /\ \E title \in FormTexts : ret' = [ret EXCEPT !.job_title = title]
    /\ arg' = "JobTitleChanged"
    /\ UNCHANGED pc

LocationChanged ==
    /\ pc = "running" /\ FormOpen
    /\ \E location \in FormTexts : ret' = [ret EXCEPT !.location = location]
    /\ arg' = "LocationChanged"
    /\ UNCHANGED pc

JobURLChanged ==
    /\ pc = "running" /\ FormOpen
    /\ \E url \in FormTexts : ret' = [ret EXCEPT !.url = url]
    /\ arg' = "JobURLChanged"
    /\ UNCHANGED pc

LocationTypeChanged ==
    /\ pc = "running" /\ FormOpen
    /\ \E loc_type \in {"Remote"} : ret' = [ret EXCEPT !.location_type = Some(loc_type)]
    /\ arg' = "LocationTypeChanged"
    /\ UNCHANGED pc

MinPayChanged ==
    /\ pc = "running" /\ FormOpen
    /\ \E pay_str \in FormPays : ret' = [ret EXCEPT !.min_pay = pay_str]
    /\ arg' = "MinPayChanged"
    /\ UNCHANGED pc

MaxPayChanged ==
    /\ pc = "running" /\ FormOpen
    /\ \E pay_str \in FormPays : ret' = [ret EXCEPT !.max_pay = pay_str]
    /\ arg' = "MaxPayChanged"
    /\ UNCHANGED pc

JobPostCompanyChanged ==
    /\ pc = "running" /\ ret.modal = "AddJobPostModal"
    /\ \E c \in 1 .. Len(ret.companies) :
          ret' = [ret EXCEPT !.job_post_company = Some(ret.companies[c])]
    /\ arg' = "JobPostCompanyChanged"
    /\ UNCHANGED pc

EditJobPostSaved(self, updated) ==
    hide_modal([self EXCEPT !.db.job_post = RowsUpdated(self.db.job_post, updated),
                            !.job_posts = RowsUpdated(self.job_posts, updated)])

EditJobPost ==
    /\ pc = "running" /\ ret.modal = "EditJobPostModal"
    /\ arg' = "EditJobPost"
    /\ IF ~ret.job_post_id.some THEN UNCHANGED <<pc, ret>>
       ELSE IF ~HasPost(ret.job_posts, ret.job_post_id.val)
       THEN pc' = "panicked" /\ UNCHANGED ret
       ELSE IF FormIncomplete(ret) THEN UNCHANGED <<pc, ret>>
       ELSE IF ~FormPay(ret.min_pay).ok \/ ~FormPay(ret.max_pay).ok
       THEN pc' = "panicked" /\ UNCHANGED ret
       ELSE /\ ret' = EditJobPostSaved(
                          ret, EditedPost(ret, ret.job_posts[PostAt(ret.job_posts,
                                                                     ret.job_post_id.val)]))
            /\ UNCHANGED pc

CreateJobPost ==
    /\ pc = "running" /\ ret.modal = "AddJobPostModal"
    /\ Len(ret.db.job_post) < MaxJobPosts
    /\ arg' = "CreateJobPost"
    /\ IF FormIncomplete(ret) \/ ret.job_post_company = None THEN UNCHANGED <<pc, ret>>
       ELSE IF ~FormPay(ret.min_pay).ok \/ ~FormPay(ret.max_pay).ok
       THEN pc' = "panicked" /\ UNCHANGED ret
       ELSE /\ ret' = hide_modal([ret EXCEPT
                          !.db.job_post = RowsInserted(ret.db.job_post, CreatedPost(ret)),
                          !.filtering = ret.filtering + 1])
            /\ UNCHANGED pc

(* the result of a filter query arrives: the job posts listed are those of *)
(* the database                                                            *)
ResultsFiltered ==
    /\ pc = "running" /\ ret.filtering > 0
    /\ arg' = "ResultsFiltered"
    /\ ret' = [ret EXCEPT !.job_posts = ret.db.job_post, !.filtering = ret.filtering - 1]
    /\ UNCHANGED pc

FormNext ==
    \/ ShowAddJobPostModal \/ ShowEditJobPostModal \/ HideModal
    \/ JobTitleChanged \/ LocationChanged \/ JobURLChanged \/ LocationTypeChanged
    \/ MinPayChanged \/ MaxPayChanged \/ JobPostCompanyChanged
    \/ EditJobPost \/ CreateJobPost \/ ResultsFiltered

SpecForm == FormInit /\ [][FormNext]_vars

(* a pay field of the form holds something that is not an amount *)
FormPayUnparsed(self) ==
    \/ self.min_pay # "" /\ ~get_pay_i64(self.min_pay).ok
    \/ self.max_pay # "" /\ ~get_pay_i64(self.max_pay).ok

(* C15: a submission of the job post form (EditJobPost or CreateJobPost)   *)
(* with a pay field that is not empty and does not parse leaves the job    *)
(* posts of the database and the form with its fields as they are, and the *)
(* application running.                                                    *)
C15_BadPayBlocksSubmit ==
    [][ (arg' \in {"EditJobPost", "CreateJobPost"} /\ FormPayUnparsed(ret))
            => (pc' = "running" /\ ret' = ret) ]_vars

(***************************************************************************)
(* parse_salary on texts with decimal digits outside ASCII                 *)
(***************************************************************************)
DigitAmounts ==
    {"$85,000.00/yr", "$42.50/hr", "$#.00/yr", "$#,###.##/hr", "$1#.50/mo", "#.00/yr"}

DigitTexts == UNION { SalaryTextsOf(DigitAmounts, k) : k \in 0 .. MaxSalaryAmounts }

DigitInit ==
    /\ pc = "call"
    /\ arg \in DigitTexts
    /\ ret = <<>>

SpecSalaryDigits == DigitInit /\ [][SalaryNext]_vars

(* C16: once parse_salary has returned, the number of result pairs equals  *)
(* the number of regex matches: no match is skipped (a match whose number  *)
(* does not parse would have to fail the call, which returns a list here). *)
C16_PairPerMatch ==
    pc = "done" => Len(ret) = Len(SalaryCaptures(arg, 1))

(***************************************************************************)
(* Relative dates. NullableSqliteDateTime::from_relative is called by      *)
(* fetch_job_details and defined in no file of the sources; it is modelled *)
(* from the contract of the relative path of the date parser. The length   *)
(* of a month is not fixed by the contract: thirty days are taken.         *)
(***************************************************************************)
RelativeUnits == {"hour", "day", "week", "month"}

RelativeUnitSeconds(unit) ==
    CASE unit = "hour" -> 3600
      [] unit = "day" -> SecondsPerDay
      [] unit = "week" -> 7 * SecondsPerDay
      [] unit = "month" -> 30 * SecondsPerDay

(* the unit named by a word, singular or plural *)
RelativeUnitOf(word) ==
    IF word \in RelativeUnits THEN Some(word)
    ELSE IF EndsWith(word, "s") /\ SubSeq(word, 1, Len(word) - 1) \in RelativeUnits
    THEN Some(SubSeq(word, 1, Len(word) - 1))
    ELSE None

(* the seconds of "N <unit> ago", given the number of digits of N *)
RelativeQuantity(phrase, n) ==
    LET unit == RelativeUnitOf(SubSeq(phrase, n + 2, Len(phrase) - 4))
    IN  IF /\ n >= 1
           /\ Char(phrase, n + 1) = " "
           /\ Len(phrase) >= n + 6
           /\ EndsWith(phrase, " ago")
           /\ unit.some
        THEN Some(DecValue(SubSeq(phrase, 1, n), 1, 0) * RelativeUnitSeconds(unit.val))
        ELSE None

SameDayPhrases == {"today", "just now"}

(* the interval a phrase names, in seconds; None for a phrase not recognized *)
RelativeInterval(phrase) ==
    IF phrase \in SameDayPhrases THEN Some(0)
    ELSE RelativeQuantity(phrase, DigitRun(phrase, 1))

(* now minus the interval, truncated to its date in UTC *)
from_relative(s, now) ==
    LET interval == RelativeInterval(s)
    IN  IF interval.some
        THEN DateNaive(from_timestamp(I64Of(now - interval.val)))
        ELSE None

posted_date_or_today(posted_text, now) ==
    LET date == from_relative(posted_text, now)
    IN  IF date.some THEN date ELSE from_relative("today", now)

(* let posted_date = NullableSqliteDateTime::from_relative(&posted_text) *)
posted_date(posted_text, now) == from_relative(posted_text, now)

MaxRelativeCount == 3

RelativeCounts == 0 .. MaxRelativeCount \cup {6, 12, 30}

RelativePhrase(n, unit, plural) ==
    ToString(n) \o " " \o unit \o (IF plural THEN "s" ELSE "") \o " ago"

RelativePhrases ==
    { RelativePhrase(x[1], x[2], x[3]) : x \in RelativeCounts \X RelativeUnits \X BOOLEAN }

OtherPhrases ==
    {"", "yesterday", "3 days", "days ago", "three days ago", "3days ago", "3 dayss ago",
     "3 fortnights ago", "in 3 days", "30+ days ago", "Reposted 2 weeks ago", "3 days ago ",
     "3 minutes ago", "Today", "now", "3  ago"}

PostedTexts == RelativePhrases \cup SameDayPhrases \cup OtherPhrases

(* the moments of the calls: 2024-06-10 00:00:00 and 13:30:00,             *)
(* 2024-03-01 02:00:00 and 1970-01-01 05:00:00, in seconds since the epoch *)
Anchors == {1717977600, 1718026200, 1709258400, 18000}

RelativeInit ==
    /\ pc = "call"
    /\ arg \in [posted_text : PostedTexts, now : Anchors]
    /\ ret = None

PostedDate ==
    /\ pc = "call"
    /\ ret' = posted_date(arg.posted_text, arg.now)
    /\ pc' = "done"
    /\ UNCHANGED arg

RelativeNext == PostedDate

SpecRelative == RelativeInit /\ [][RelativeNext]_vars

(***************************************************************************)
(* Claims about the relative date parser                                   *)
(***************************************************************************)
(* the seconds of n units *)
IntervalSeconds(n, unit) ==
    n * (IF unit = "hour" THEN 60 * 60
         ELSE IF unit = "day" THEN 24 * 60 * 60
         ELSE IF unit = "week" THEN 7 * 24 * 60 * 60
         ELSE 30 * 24 * 60 * 60)

(* date is the day, in UTC, of the moment t seconds after the epoch *)
IsDayOf(date, t) ==
    /\ IsDate(date.year, date.month, date.day)
    /\ UnixDay(date) * SecondsPerDay <= t
    /\ t < (UnixDay(date) + 1) * SecondsPerDay

(* C19: for the phrase "N <unit> ago", unit an hour, day, week or month in *)
(* the singular or the plural, the date returned is the day in UTC of the  *)
(* anchor minus N units.                                                   *)
C19_IntervalBeforeAnchor ==
    pc = "done" =>
        \A n \in RelativeCounts, unit \in RelativeUnits, plural \in BOOLEAN :
            arg.posted_text = RelativePhrase(n, unit, plural)
                => ret.some /\ IsDayOf(ret.val, arg.now - IntervalSeconds(n, unit))

C19_Witness ==
    /\ pc = "done"
    /\ arg = [posted_text |-> "3 days ago", now |-> 1717977600]
    /\ ret = Some(NaiveDate(2024, 6, 7))

(* the phrases that are recognized: a count, a unit and "ago", or a word   *)
(* for the same day                                                        *)
IsRelativePhrase(s) ==
    \/ s \in SameDayPhrases
    \/ \E k \in 1 .. Len(s) :
          /\ DigitsAt(s, 1, k)
          /\ \E unit \in RelativeUnits :
                SubSeq(s, k + 1, Len(s)) \in {" " \o unit \o " ago", " " \o unit \o "s ago"}

(* C20: a phrase that is not recognized gives an absent date, never the    *)
(* date of the anchor.                                                     *)
C20_UnrecognizedAbsent ==
    pc = "done" /\ ~IsRelativePhrase(arg.posted_text) => ret = None

C20_Witness ==
    /\ pc = "done"
    /\ arg = [posted_text |-> "yesterday", now |-> 1718026200]
    /\ ret = None

(***************************************************************************)
(* find_yoe_naive and parse_salary on the same text, as fetch_job_details  *)
(* applies them to the description and to the salary of a page             *)
(***************************************************************************)
MaxScanPieces == 2

ScanPieces ==
    {"x", " years", "+ years", " year", "$.00/yr", "$,.00/hr", "/mo", "-",
     "# years", "#-# years", "$#.##/yr", "3 years", "$42.50/hr"}

ScanTexts ==
    UNION { { Join(ps, "") : ps \in [1 .. k -> ScanPieces] } : k \in 0 .. MaxScanPieces }

ScanInit ==
    /\ pc = "call"
    /\ arg \in ScanTexts
    /\ ret = <<>>

ScanYoe ==
    /\ pc = "call"
    /\ ret' = find_yoe_naive(arg)
    /\ pc' = "find_yoe_naive"
    /\ UNCHANGED arg

ScanSalary ==
    /\ pc = "call"
    /\ ret' = parse_salary(arg)
    /\ pc' = "parse_salary"
    /\ UNCHANGED arg

ScanNext == ScanYoe \/ ScanSalary

SpecScan == ScanInit /\ [][ScanNext]_vars

(* C21: on a text without a digit 0 to 9, find_yoe_naive returns (None,    *)
(* None) and parse_salary returns the empty list; both return, neither     *)
(* panics.                                                                 *)
C21_NoDigitNothingFound ==
    ~HasDigit(arg) =>
        /\ pc = "find_yoe_naive" => ret = <<None, None>>
        /\ pc = "parse_salary" => ret = <<>>

C21_Witness ==
    /\ arg = "x years"
    /\ pc = "find_yoe_naive"
    /\ ret = <<None, None>>

(***************************************************************************)
(* An amount of a job post through the edit form: ShowEditJobPostModal     *)
(* fills the pay field with get_pay_str and EditJobPost reads it back.     *)
(***************************************************************************)
MaxCents == 100

CentsExamples ==
    {"85050", "8500000", "12345678901", "999999999999999", "3518437208883199",
     "3518437208883200", "3518437208883201", "3518437208883202", "9007199254740993",
     "9223372036854775807"}

PayCentsValues ==
    {None} \cup { Some(I64Of(n)) : n \in 0 .. MaxCents }
           \cup { Some(I64(FALSE, BigFromDec(digits))) : digits \in CentsExamples }
           \cup { Some(I64Of(n)) : n \in {-1, -85050} }

RoundTripInit ==
    /\ pc = "call"
    /\ arg \in PayCentsValues
    /\ ret = ""

(* self.min_pay = get_pay_str(job_post.min_pay_cents) *)
PayShown ==
    /\ pc = "call"
    /\ ret' = get_pay_str(arg)
    /\ pc' = "shown"
    /\ UNCHANGED arg

(* post.min_pay_cents = match self.min_pay.as_str() { .. } *)
PaySaved ==
    /\ pc = "shown"
    /\ ret' = FormPay(ret)
    /\ pc' = "saved"
    /\ UNCHANGED arg

RoundTripNext == PayShown \/ PaySaved

SpecRoundTrip == RoundTripInit /\ [][RoundTripNext]_vars

(* the amount saved is the amount of the post *)
PayKept == pc = "saved" => (ret.ok /\ ret.val = arg)

AbsentShownEmpty == (pc = "shown" /\ arg = None) => ret = ""

(* C28 as stated: every amount of zero cents or more, and the absent       *)
(* amount, comes back from the form as it was.                             *)
C28_RoundTrip ==
    /\ AbsentShownEmpty
    /\ (arg = None \/ ~arg.val.neg) => PayKept

(* the greatest amount below which every amount comes back: 100 * 2^45 + 1 *)
RoundTripTop == I64(FALSE, BigFromDec("3518437208883201"))

(* C28 as amended: every amount from zero to 3518437208883201 cents, and   *)
(* the absent amount, comes back from the form as it was.                  *)
C28_RoundTripWithinTop ==
    /\ AbsentShownEmpty
    /\ (arg = None \/ (~arg.val.neg /\ ~I64Less(RoundTripTop, arg.val))) => PayKept

C28_Witness ==
    /\ pc = "saved"
    /\ arg = Some(I64Of(85050))
    /\ ret = Ok(Some(I64Of(85050)))

(***************************************************************************)
(* JobHunter (job_hunter.rs): the pages of the list of job posts. ret is   *)
(* the JobHunter: the page, the job posts listed and their count, the      *)
(* companies shown, the filter, the database and the filter queries in     *)
(* flight, each with the arguments it was issued with and, once it has     *)
(* run, its rows.                                                          *)
(***************************************************************************)
total_pages_floor(total_items, page_size) == total_items \div page_size

(* (total_items + page_size - 1) / page_size *)
total_pages(total_items, page_size) == (total_items + page_size - 1) \div page_size

(* the rows of a query and the first n of them *)
RowsWhere(rows, Keep(_)) == SelectSeq(rows, Keep)

RowsLimit(rows, offset, limit) ==
    SubSeq(rows, offset + 1, IF offset + limit < Len(rows) THEN offset + limit ELSE Len(rows))

(* JOIN company .. WHERE company.hidden = 0, and the filter on the type of *)
(* location                                                                *)
IsFiltered(db, remote, post) ==
    /\ \E company \in db.company : company.id = post.company_id /\ ~company.hidden
    /\ remote => post.location_type = "Remote"

(* JobPost::filter: a page of the rows *)
filter(page, page_size, remote, db) ==
    LET Keep(post) == IsFiltered(db, remote, post)
    IN  RowsLimit(RowsWhere(db.job_post, Keep), (page - 1) * page_size, page_size)

(* JobPost::filter_count *)
filter_count(remote, db) ==
    LET Keep(post) == IsFiltered(db, remote, post)
    IN  Len(RowsWhere(db.job_post, Keep))

(* JobPost::fetch_all *)
fetch_all(page, page_size, db) == filter(page, page_size, FALSE, db)

(* Company::fetch_shown: the ids of the companies that are not hidden *)
fetch_shown(db) == { company.id : company \in { c \in db.company : ~c.hidden } }

(* the task of get_filter_task, with the arguments it captures *)
get_filter_task(self) ==
    [self EXCEPT !.tasks = Append(self.tasks,
        [page |-> self.job_page, page_size |-> self.job_page_size,
         remote |-> self.filter_remote, jobs |-> None])]

set_job_count(self) ==
    [self EXCEPT !.job_posts_total = filter_count(self.filter_remote, self.db)]

(***************************************************************************)
(* The database starts with two companies and eleven job posts, one more   *)
(* than a page holds; at most MaxTasks filter queries are in flight, and   *)
(* the job posts deleted one by one are among DeletedPosts.                *)
(***************************************************************************)
MaxTasks == 1

DeletedPosts == {1, 11}

PagesCompanies == {[id |-> 1, hidden |-> FALSE], [id |-> 2, hidden |-> FALSE]}

PagesPosts ==
    [ id \in 1 .. 11 |->
        [id |-> id, company_id |-> IF id = 11 THEN 2 ELSE 1,
         location_type |-> IF id = 1 THEN "Onsite" ELSE "Remote"] ]

PageNumbers == -1 .. 3

PagesInit ==
    /\ pc = "running"
    /\ arg = <<>>
    /\ ret = [job_page |-> 1, job_page_size |-> 10, job_posts_total |-> 0,
              job_posts |-> <<>>, companies |-> {}, filter_remote |-> FALSE,
              db |-> [company |-> PagesCompanies, job_post |-> PagesPosts],
              tasks |-> <<>>]

CanFilter == Len(ret.tasks) < MaxTasks

WindowOpened ==
    /\ pc = "running"
    /\ arg' = <<"WindowOpened">>
    /\ ret' = set_job_count([ret EXCEPT
                  !.companies = fetch_shown(ret.db),
                  !.job_posts = fetch_all(ret.job_page, ret.job_page_size, ret.db)])
    /\ UNCHANGED pc

JobPageButtonPressed ==
    /\ pc = "running"
    /\ \E page \in PageNumbers :
          /\ arg' = <<"JobPageButtonPressed", page>>
          /\ IF page > 0 /\ page <= total_pages(ret.job_posts_total, ret.job_page_size)
             THEN CanFilter /\ ret' = get_filter_task([ret EXCEPT !.job_page = page])
             ELSE UNCHANGED ret
    /\ UNCHANGED pc

FilterRemoteChanged ==
    /\ pc = "running"
    /\ \E val \in BOOLEAN :
          /\ arg' = <<"FilterRemoteChanged", val>>
          /\ ret' = [ret EXCEPT !.filter_remote = val]
    /\ UNCHANGED pc

FilterResults ==
    /\ pc = "running" /\ CanFilter
    /\ arg' = <<"FilterResults">>
    /\ ret' = get_filter_task(ret)
    /\ UNCHANGED pc

(* the query of a task runs on the database *)
FilterQueried ==
    /\ pc = "running"
    /\ \E i \in 1 .. Len(ret.tasks) :
          /\ ret.tasks[i].jobs = None
          /\ ret' = [ret EXCEPT !.tasks[i].jobs =
                        Some(filter(ret.tasks[i].page, ret.tasks[i].page_size,
                                    ret.tasks[i].remote, ret.db))]
    /\ arg' = <<"JobPost::filter">>
    /\ UNCHANGED pc

PagesResultsFiltered ==
    /\ pc = "running"
    /\ \E i \in 1 .. Len(ret.tasks) :
          /\ ret.tasks[i].jobs # None
          /\ ret' = set_job_count([ret EXCEPT
                        !.job_posts = ret.tasks[i].jobs.val,
                        !.tasks = SubSeq(ret.tasks, 1, i - 1)
                                    \o SubSeq(ret.tasks, i + 1, Len(ret.tasks))])
    /\ arg' = <<"ResultsFiltered">>
    /\ UNCHANGED pc

(* Company::hide, Company::solo, Company::show_all *)
CompaniesHidden(db, Hide(_)) ==
    [db EXCEPT !.company = { [c EXCEPT !.hidden = c.hidden \/ Hide(c)] : c \in db.company }]

HideCompany ==
    /\ pc = "running" /\ CanFilter
    /\ \E id \in ret.companies :
          LET Hide(c) == c.id = id
              db == CompaniesHidden(ret.db, Hide)
          IN  /\ arg' = <<"HideCompany", id>>
              /\ ret' = get_filter_task([ret EXCEPT !.db = db, !.companies = fetch_shown(db)])
    /\ UNCHANGED pc

SoloCompany ==
    /\ pc = "running" /\ CanFilter
    /\ \E id \in ret.companies :
          LET Hide(c) == c.id # id
              db == CompaniesHidden(ret.db, Hide)
          IN  /\ arg' = <<"SoloCompany", id>>
              /\ ret' = get_filter_task([ret EXCEPT !.db = db, !.companies = fetch_shown(db)])
    /\ UNCHANGED pc

ShowAllCompanies ==
    /\ pc = "running" /\ CanFilter
    /\ LET db == [ret.db EXCEPT !.company = { [c EXCEPT !.hidden = FALSE] : c \in ret.db.company }]
       IN  ret' = get_filter_task([ret EXCEPT !.db = db, !.companies = fetch_shown(db)])
    /\ arg' = <<"ShowAllCompanies">>
    /\ UNCHANGED pc

(* Company::delete: the company and its job posts *)
CompanyDeleted(db, id) ==
    LET Keep(post) == post.company_id # id
    IN  [db EXCEPT !.company = { c \in db.company : c.id # id },
                   !.job_post = RowsWhere(db.job_post, Keep)]

DeleteCompany ==
    /\ pc = "running" /\ CanFilter
    /\ \E id \in ret.companies :
          LET db == CompanyDeleted(ret.db, id)
              Keep(post) == post.company_id # id
          IN  /\ arg' = <<"DeleteCompany", id>>
              /\ ret' = get_filter_task([ret EXCEPT
                            !.db = db,
                            !.job_posts = RowsWhere(ret.job_posts, Keep),
                            !.companies = fetch_shown(db)])
    /\ UNCHANGED pc

DeleteJobPost ==
    /\ pc = "running" /\ CanFilter
    /\ \E i \in 1 .. Len(ret.job_posts) :
          LET Keep(post) == post.id # ret.job_posts[i].id
          IN  /\ ret.job_posts[i].id \in DeletedPosts
              /\ arg' = <<"DeleteJobPost", ret.job_posts[i].id>>
              /\ ret' = get_filter_task(
                            [ret EXCEPT !.db.job_post = RowsWhere(ret.db.job_post, Keep)])
    /\ UNCHANGED pc

PagesNext ==
    \/ WindowOpened \/ JobPageButtonPressed \/ FilterRemoteChanged \/ FilterResults
    \/ FilterQueried \/ PagesResultsFiltered
    \/ HideCompany \/ SoloCompany \/ ShowAllCompanies \/ DeleteCompany \/ DeleteJobPost

SpecPages == PagesInit /\ [][PagesNext]_vars

(***************************************************************************)
(* Claims about the pages                                                  *)
(***************************************************************************)
(* the number of pages of n rows: the least k with k * size >= n *)
PagesOf(n, size) == CHOOSE k \in 0 .. n : k * size >= n /\ (k = 0 \/ (k - 1) * size < n)

(* C23: once the filtered results have been received, job_page is between  *)
(* 1 and the number of pages of the results counted, or 1 without results. *)
C23_PageWithinResults ==
    (arg # <<>> /\ arg[1] = "ResultsFiltered") =>
        /\ ret.job_page >= 1
        /\ ret.job_page <= PagesOf(ret.job_posts_total, ret.job_page_size)
           \/ ret.job_page = 1

(* C29: JobPageButtonPressed(p) with p from 1 to the number of pages of    *)
(* job_posts_total sets job_page to p and issues one filter query, for     *)
(* page p; with any other p it changes nothing and issues no query.        *)
C29_PageButton ==
    [][ \A p \in PageNumbers :
          arg' = <<"JobPageButtonPressed", p>> =>
            IF 1 <= p /\ p <= PagesOf(ret.job_posts_total, ret.job_page_size)
            THEN /\ ret'.job_page = p
                 /\ Len(ret'.tasks) = Len(ret.tasks) + 1
                 /\ ret'.tasks[Len(ret'.tasks)].page = p
                 /\ [ret' EXCEPT !.job_page = ret.job_page, !.tasks = ret.tasks] = ret
            ELSE ret' = ret ]_vars

C29_Witness ==
    /\ arg = <<"JobPageButtonPressed", 2>>
    /\ ret.job_page = 2
    /\ ret.job_posts_total = 11
    /\ Len(ret.tasks) = 1 /\ ret.tasks[1].page = 2

(***************************************************************************)
(* JobHunter (job_hunter.rs): the modals of companies and of applications, *)
(* with the modal of a new job post. The buttons under an open modal are   *)
(* covered, so a modal is opened from no modal; the message of a modal's   *)
(* button is handled with that modal open, or with no modal when a second  *)
(* press is handled after the first has closed it. The URL of a new job    *)
(* post is typed in SpecForm and stays empty here, so the job posts stay   *)
(* those of the start.                                                     *)
(***************************************************************************)
EditInterviewedByStatus(self) == self.job_app_status = Some("Interview")

(* if self.job_app_status == Some(Interview) { true } else { self.job_app_interviewed } *)
EditInterviewed(self) ==
    IF self.job_app_status = Some("Interview") THEN TRUE ELSE self.job_app_interviewed

CompanyIncompleteNameOnly(self) == self.company_name = ""

(* self.company_name == "" || self.careers_url == "" *)
CompanyIncomplete(self) == self.company_name = "" \/ self.careers_url = ""

(* Company::fetch_shown *)
CompaniesShown(db) ==
    LET Shown(company) == ~company.hidden IN SelectSeq(db.company, Shown)

(* JobApplication::fetch_one_by_job_post_id, JobApplication::fetch_one *)
ApplicationsOf(db, job_post_id) ==
    LET Of(app) == app.job_post_id = job_post_id IN SelectSeq(db.job_application, Of)

ApplicationAt(db, id) ==
    db.job_application[CHOOSE i \in 1 .. Len(db.job_application) : db.job_application[i].id = id]

MaxCompanies == 2

MaxFilterTasks == 1

SubmitTexts == {"", "x"}

JobApplicationStatuses == {"Applied", "Interview", "Rejected"}

SubmitCompanies == <<[id |-> 1, name |-> "Acme", careers_url |-> Some("x"), hidden |-> FALSE]>>

SubmitInit ==
    /\ pc = "running"
    /\ arg = <<>>
    /\ ret = [modal |-> "None", company_name |-> "", careers_url |-> "",
              company_id |-> None, job_post_id |-> None, job_app_id |-> None,
              job_app_status |-> None, job_app_interviewed |-> FALSE,
              job_title |-> "", min_yoe |-> None,
              max_yoe |-> None, min_pay |-> "", max_pay |-> "", benefits |-> "",
              location |-> "", job_posted |-> None, location_type |-> None,
              skills |-> "", url |-> "", job_post_company |-> None,
              job_posts |-> FormPosts, companies |-> SubmitCompanies,
              db |-> [job_post |-> FormPosts, company |-> SubmitCompanies,
                      job_application |-> <<>>],
              filtering |-> 0]

ShowCreateCompanyModal ==
    /\ pc = "running" /\ ret.modal = "None"
    /\ arg' = "ShowCreateCompanyModal"
    /\ ret' = [ret EXCEPT !.modal = "CreateCompanyModal"]
    /\ UNCHANGED pc

ShowEditCompanyModal ==
    /\ pc = "running" /\ ret.modal = "None"
    /\ \E c \in 1 .. Len(ret.companies) :
          LET company == ret.companies[c]
          IN  ret' = [ret EXCEPT !.company_name = company.name,
                                 !.careers_url = company.careers_url.val,
                                 !.company_id = Some(company.id),
                                 !.modal = "EditCompanyModal"]
    /\ arg' = "ShowEditCompanyModal"
    /\ UNCHANGED pc

CompanyModalOpen == ret.modal \in {"CreateCompanyModal", "EditCompanyModal"}

CompanyNameChanged ==
    /\ pc = "running" /\ CompanyModalOpen
    /\ \E name \in SubmitTexts : ret' = [ret EXCEPT !.company_name = name]
    /\ arg' = "CompanyNameChanged"
    /\ UNCHANGED pc

CareersURLChanged ==
    /\ pc = "running" /\ CompanyModalOpen
    /\ \E careers_url \in SubmitTexts : ret' = [ret EXCEPT !.careers_url = careers_url]
    /\ arg' = "CareersURLChanged"
    /\ UNCHANGED pc

TrackNewCompany ==
    /\ pc = "running" /\ ret.modal \in {"CreateCompanyModal", "None"}
    /\ Len(ret.db.company) < MaxCompanies
    /\ arg' = "TrackNewCompany"
    /\ IF CompanyIncomplete(ret) THEN UNCHANGED <<pc, ret>>
       ELSE LET company == [id |-> Len(ret.db.company) + 1, name |-> ret.company_name,
                            careers_url |-> Some(ret.careers_url), hidden |-> FALSE]
                db == [ret.db EXCEPT !.company = Append(ret.db.company, company)]
            IN  /\ ret' = hide_modal([ret EXCEPT !.db = db, !.companies = CompaniesShown(db)])
                /\ UNCHANGED pc

EditCompany ==
    /\ pc = "running" /\ ret.modal \in {"EditCompanyModal", "None"}
    /\ arg' = "EditCompany"
    /\ IF ret.company_id = None THEN UNCHANGED <<pc, ret>>
       ELSE IF CompanyIncomplete(ret) THEN UNCHANGED <<pc, ret>>
       ELSE LET company == [id |-> ret.company_id.val, name |-> ret.company_name,
                            careers_url |-> Some(ret.careers_url), hidden |-> FALSE]
                db == [ret.db EXCEPT !.company = RowsUpdated(ret.db.company, company)]
            IN  /\ ret' = hide_modal([ret EXCEPT !.db = db, !.companies = CompaniesShown(db)])
                /\ UNCHANGED pc

(* the button of a listed job post without an application *)
ShowCreateApplicationModal ==
    /\ pc = "running" /\ ret.modal = "None"
    /\ \E i \in 1 .. Len(ret.job_posts) :
          /\ ApplicationsOf(ret.db, ret.job_posts[i].id) = <<>>
          /\ ret' = [ret EXCEPT !.job_app_status = Some("Applied"),
                                !.job_post_id = Some(ret.job_posts[i].id),
                                !.job_app_interviewed = FALSE,
                                !.modal = "CreateApplicationModal"]
    /\ arg' = "ShowCreateApplicationModal"
    /\ UNCHANGED pc

(* the button of a listed job post with an application *)
ShowEditApplicationModal ==
    /\ pc = "running" /\ ret.modal = "None"
    /\ \E i \in 1 .. Len(ret.job_posts) :
          /\ ApplicationsOf(ret.db, ret.job_posts[i].id) # <<>>
          /\ LET application ==
                     ApplicationAt(ret.db, ApplicationsOf(ret.db, ret.job_posts[i].id)[1].id)
             IN  ret' = [ret EXCEPT !.job_post_id = Some(application.job_post_id),
                                    !.job_app_id = Some(application.id),
                                    !.job_app_status = Some(application.status),
                                    !.job_app_interviewed = application.interviewed,
                                    !.modal = "EditApplicationModal"]
    /\ arg' = "ShowEditApplicationModal"
    /\ UNCHANGED pc

JobApplicationStatusChanged ==
    /\ pc = "running" /\ ret.modal \in {"CreateApplicationModal", "EditApplicationModal"}
    /\ \E status \in JobApplicationStatuses : ret' = [ret EXCEPT !.job_app_status = Some(status)]
    /\ arg' = "JobApplicationStatusChanged"
    /\ UNCHANGED pc

CreateApplication ==
    /\ pc = "running" /\ ret.modal \in {"CreateApplicationModal", "None"}
    /\ ret.filtering < MaxFilterTasks
    /\ arg' = "CreateApplication"
    /\ IF ret.job_app_status = None THEN UNCHANGED <<pc, ret>>
       ELSE LET interviewed == ret.job_app_status = Some("Interview")
                new_app == [id |-> Len(ret.db.job_application) + 1,
                            job_post_id |-> ret.job_post_id.val,
                            status |-> ret.job_app_status.val,
                            interviewed |-> interviewed]
            IN  /\ ret' = hide_modal([ret EXCEPT
                              !.job_app_interviewed = interviewed,
                              !.db.job_application = Append(ret.db.job_application, new_app),
                              !.filtering = ret.filtering + 1])
                /\ UNCHANGED pc

EditApplication ==
    /\ pc = "running" /\ ret.modal \in {"EditApplicationModal", "None"}
    /\ ret.filtering < MaxFilterTasks
    /\ arg' = "EditApplication"
    /\ IF ret.job_app_id = None THEN UNCHANGED <<pc, ret>>
       ELSE IF ret.job_app_status = None THEN UNCHANGED <<pc, ret>>
       ELSE LET app == [id |-> ret.job_app_id.val,
                        job_post_id |-> ret.job_post_id.val,
                        status |-> ret.job_app_status.val,
                        interviewed |-> EditInterviewed(ret)]
            IN  /\ ret' = hide_modal([ret EXCEPT
                              !.job_app_interviewed = EditInterviewed(ret),
                              !.db.job_application = RowsUpdated(ret.db.job_application, app),
                              !.filtering = ret.filtering + 1])
                /\ UNCHANGED pc

SubmitNext ==
    \/ ShowCreateCompanyModal \/ ShowEditCompanyModal \/ CompanyNameChanged
    \/ CareersURLChanged \/ TrackNewCompany \/ EditCompany
    \/ ShowCreateApplicationModal \/ ShowEditApplicationModal
    \/ JobApplicationStatusChanged \/ CreateApplication \/ EditApplication
    \/ ShowAddJobPostModal \/ JobTitleChanged \/ LocationChanged
    \/ LocationTypeChanged \/ JobPostCompanyChanged \/ CreateJobPost
    \/ HideModal \/ ResultsFiltered

SpecSubmit == SubmitInit /\ [][SubmitNext]_vars

(***************************************************************************)
(* Claims about the modals                                                 *)
(***************************************************************************)
(* C25: no step turns the interviewed flag of a stored application from    *)
(* true to false, and an EditApplication that writes an application stores *)
(* true when the status chosen is Interview and otherwise the flag the     *)
(* application had when the modal was opened.                               *)
C25_InterviewedKept ==
    [][ /\ Len(ret'.db.job_application) >= Len(ret.db.job_application)
        /\ \A i \in 1 .. Len(ret.db.job_application) :
              LET old == ret.db.job_application[i]
                  new == ret'.db.job_application[i]
              IN  /\ old.interviewed => new.interviewed
                  /\ (arg' = "EditApplication" /\ ret.job_app_id = Some(old.id)
                        /\ ret.job_app_status # None)
                        => /\ new.status = ret.job_app_status.val
                           /\ new.interviewed = (new.status = "Interview" \/ old.interviewed)
      ]_vars

C25_Witness ==
    /\ arg = "EditApplication"
    /\ \E i \in 1 .. Len(ret.db.job_application) :
          /\ ret.db.job_application[i].status = "Rejected"
          /\ ret.db.job_application[i].interviewed

(* C30: a submission with a required field missing writes nothing and      *)
(* leaves the modal and the fields of the form as they were.               *)
RequiredMissing(message) ==
    \/ /\ message \in {"TrackNewCompany", "EditCompany"}
       /\ ret.company_name = "" \/ ret.careers_url = ""
    \/ /\ message \in {"CreateApplication", "EditApplication"}
       /\ ret.job_app_status = None
    \/ /\ message = "CreateJobPost"
       /\ \/ ret.location_type = None \/ ret.location = "" \/ ret.job_title = ""
          \/ ret.url = "" \/ ret.job_post_company = None

ExecutedOnPool(self, db) == [self EXCEPT !.db = db, !.tx = Some(db), !.done = self.done + 1]

(* .execute(&mut *tx): a statement run in the transaction *)
Executed(self, db) == [self EXCEPT !.tx = Some(db), !.done = self.done + 1]

PostsOfCompany(db, id) == { post \in db.job_post : post.company_id = id }

(* the statements of Company::delete(id), in order *)
Company_delete(k, db, id) ==
    IF k = 1
    THEN [db EXCEPT !.job_application =
             { app \in db.job_application :
                 app.job_post_id \notin { post.id : post \in PostsOfCompany(db, id) } }]
    ELSE IF k = 2
    THEN [db EXCEPT !.job_post = { post \in db.job_post : post.company_id # id }]
    ELSE [db EXCEPT !.company = db.company \ {id}]

(* the statements of JobPost::delete(id), in order *)
JobPost_delete(k, db, id) ==
    IF k = 1
    THEN [db EXCEPT !.job_application =
             { app \in db.job_application : app.job_post_id # id }]
    ELSE [db EXCEPT !.job_post = { post \in db.job_post : post.id # id }]

Statements(call) == IF call[1] = "Company::delete" THEN 3 ELSE 2

Statement(call, k, db) ==
    IF call[1] = "Company::delete" THEN Company_delete(k, db, call[2])
    ELSE JobPost_delete(k, db, call[2])

(***************************************************************************)
(* The databases of the start: companies, job posts and applications with  *)
(* the ids of DeleteIds, every job post of a company of the database and   *)
(* every application of a job post of the database.                        *)
(***************************************************************************)
DeleteIds == {1, 2}

DeleteDatabases ==
    { db \in [company : SUBSET DeleteIds,
              job_post : SUBSET [id : DeleteIds, company_id : DeleteIds],
              job_application : SUBSET [id : DeleteIds, job_post_id : DeleteIds]] :
        /\ \A post \in db.job_post : post.company_id \in db.company
        /\ \A app \in db.job_application :
              app.job_post_id \in { post.id : post \in db.job_post }
        /\ \A p, q \in db.job_post : p.id = q.id => p = q
        /\ \A a, b \in db.job_application : a.id = b.id => a = b }

DeleteInit ==
    /\ pc = "idle"
    /\ arg = <<>>
    /\ \E db \in DeleteDatabases : ret = [db |-> db, tx |-> None, done |-> 0, res |-> None]

(* let mut tx = executor.begin().await?; *)
DeleteBegin ==
    /\ pc = "idle"
    /\ \E name \in {"Company::delete", "JobPost::delete"}, id \in DeleteIds :
          /\ arg' = <<name, id>>
          /\ \/ pc' = "delete" /\ ret' = [ret EXCEPT !.tx = Some(ret.db), !.done = 0, !.res = None]
             \/ pc' = "idle" /\ ret' = [ret EXCEPT !.tx = None, !.done = 0, !.res = Some("Err")]

(* sqlx::query!(..).execute(&mut *tx).await? *)
DeleteExecute ==
    /\ pc = "delete" /\ ret.done < Statements(arg)
    /\ \/ pc' = "delete" /\ ret' = Executed(ret, Statement(arg, ret.done + 1, ret.tx.val))
       \/ pc' = "idle" /\ ret' = [ret EXCEPT !.tx = None, !.res = Some("Err")]
    /\ UNCHANGED arg

(* tx.commit().await?; Ok(()) *)
DeleteCommit ==
    /\ pc = "delete" /\ ret.done = Statements(arg)
    /\ \/ ret' = [ret EXCEPT !.db = ret.tx.val, !.tx = None, !.res = Some("Ok")]
       \/ ret' = [ret EXCEPT !.tx = None, !.res = Some("Err")]
    /\ pc' = "idle"
    /\ UNCHANGED arg

DeleteNext == DeleteBegin \/ DeleteExecute \/ DeleteCommit

SpecDelete == DeleteInit /\ [][DeleteNext]_vars

(***************************************************************************)
(* Claims about the deletions                                              *)
(***************************************************************************)
(* C27: a deletion that returns Ok has removed the company, its job posts  *)
(* and their applications (the job post and its applications for           *)
(* JobPost::delete); until then, and when it returns Err, the committed    *)
(* database is the one of the call.                                        *)
C27_DeleteAsOne ==
    [][ IF pc = "delete" /\ ret'.res = Some("Ok")
        THEN IF arg[1] = "Company::delete"
             THEN /\ arg[2] \notin ret'.db.company
                  /\ \A post \in ret'.db.job_post : post.company_id # arg[2]
                  /\ \A app \in ret'.db.job_application :
                        /\ app.job_post_id \notin
                              { post.id : post \in ret.db.job_post \ ret'.db.job_post }
                        /\ app.job_post_id \in { post.id : post \in ret'.db.job_post }
             ELSE /\ \A post \in ret'.db.job_post : post.id # arg[2]
                  /\ \A app \in ret'.db.job_application : app.job_post_id # arg[2]
        ELSE ret'.db = ret.db ]_vars

C27_Witness ==
    /\ pc = "idle" /\ arg = <<"Company::delete", 1>> /\ ret.res = Some("Err")
    /\ ret.done = 2
    /\ 1 \in ret.db.company
    /\ [id |-> 1, company_id |-> 1] \in ret.db.job_post
    /\ [id |-> 1, job_post_id |-> 1] \in ret.db.job_application

(***************************************************************************)
(* JobHunter (job_hunter.rs): FetchJobDetails and JobDetailsFetched. ret   *)
(* holds the URL typed, the web driver of the start, awaiting, the fields  *)
(* that JobDetailsFetched fills and the scrapes in flight; a scrape is a   *)
(* task that runs fetch_job_details and hands its result to the closure    *)
(* that makes the message. The result depends on the driver and the URL of *)
(* the call only; it is kept with the scrape from its start, with the      *)
(* fields JobDetailsFetched writes from it.                                *)
(***************************************************************************)
MaxScrapes == 1

AwaitDrivers ==
    { driver \in FetchDrivers :
        driver.desc = "3-5 years, Remote" /\ driver.salary \in {None, Some("$85,000.00/yr")} }

AwaitInit ==
    /\ pc = "running"
    /\ arg = <<>>
    /\ \E web_driver \in {None} \cup { Some(driver) : driver \in AwaitDrivers } :
          ret = [url |-> "", web_driver |-> web_driver, awaiting |-> FALSE,
                 location_type |-> None, min_yoe |-> None, max_yoe |-> None,
                 min_pay |-> "", max_pay |-> "", scrapes |-> <<>>]

AwaitJobURLChanged ==
    /\ pc = "running"
    /\ \E url \in FetchUrls \cup {""} :
          /\ arg' = <<"JobURLChanged", url>>
          /\ ret' = [ret EXCEPT !.url = url]
    /\ UNCHANGED pc

(* the fields Message::JobDetailsFetched(company_name, job) writes *)
JobDetailsFields(job) ==
    IF job = None THEN None
    ELSE Some([location_type |-> Some(job.val.location_type),
               min_yoe |-> job.val.min_yoe,
               max_yoe |-> job.val.max_yoe,
               min_pay |-> get_pay_str(job.val.min_pay_cents),
               max_pay |-> get_pay_str(job.val.max_pay_cents)])

(* Task::perform(scraper::fetch_job_details(driver, job_post_url), ..) *)
Scrape(driver, url) ==
    LET res == fetch_job_details(driver, url)
    IN  [ok |-> res.ok, fields |-> IF res.ok THEN JobDetailsFields(res.val) ELSE None]

AwaitFetchJobDetails ==
    /\ pc = "running"
    /\ arg' = <<"FetchJobDetails">>
    /\ IF ret.url = "" THEN UNCHANGED ret
       ELSE IF ret.web_driver # None
       THEN /\ Len(ret.scrapes) < MaxScrapes
            /\ ret' = [ret EXCEPT !.awaiting = TRUE,
                                  !.scrapes = Append(ret.scrapes,
                                      Scrape(ret.web_driver.val, ret.url))]
       ELSE UNCHANGED ret
    /\ UNCHANGED pc

ScrapesWithout(scrapes, i) == SubSeq(scrapes, 1, i - 1) \o SubSeq(scrapes, i + 1, Len(scrapes))

(* Message::JobDetailsFetched(company_name, job) *)
JobDetailsFilled(self, fields) ==
    IF fields = None THEN [self EXCEPT !.awaiting = FALSE]
    ELSE [self EXCEPT !.awaiting = FALSE,
                      !.location_type = fields.val.location_type,
                      !.min_yoe = fields.val.min_yoe,
                      !.max_yoe = fields.val.max_yoe,
                      !.min_pay = fields.val.min_pay,
                      !.max_pay = fields.val.max_pay]

(* a scrape returns Ok: the closure makes JobDetailsFetched, handled here *)
JobDetailsFetched ==
    /\ pc = "running"
    /\ \E i \in 1 .. Len(ret.scrapes) :
          /\ ret.scrapes[i].ok
          /\ ret' = JobDetailsFilled([ret EXCEPT !.scrapes = ScrapesWithout(ret.scrapes, i)],
                                     ret.scrapes[i].fields)
    /\ arg' = <<"JobDetailsFetched">>
    /\ UNCHANGED pc

(* a scrape returns Err: res.expect("WebDriver failed") panics in the      *)
(* closure, the task ends and no message is made                           *)
ScrapeFailed ==
    /\ pc = "running"
    /\ \E i \in 1 .. Len(ret.scrapes) :
          /\ ~ret.scrapes[i].ok
          /\ ret' = [ret EXCEPT !.scrapes = ScrapesWithout(ret.scrapes, i)]
    /\ arg' = <<"panicked: WebDriver failed">>
    /\ UNCHANGED pc

AwaitNext == AwaitJobURLChanged \/ AwaitFetchJobDetails \/ JobDetailsFetched \/ ScrapeFailed

SpecAwait == AwaitInit /\ [][AwaitNext]_vars

(* the runtime runs a task to its end and hands its message to update() *)
SpecAwaitFair == SpecAwait /\ WF_vars(JobDetailsFetched) /\ WF_vars(ScrapeFailed)

(***************************************************************************)
(* Claims about awaiting                                                   *)
(***************************************************************************)
ScrapeStarts == arg' = <<"FetchJobDetails">> /\ ret.url # "" /\ ret.web_driver # None

AwaitingSetOnStart == [][ ScrapeStarts => ret'.awaiting ]_vars

NoScrapeNoChange ==
    [][ (arg' = <<"FetchJobDetails">> /\ ~(ret.url # "" /\ ret.web_driver # None))
            => ret' = ret ]_vars

AwaitingCleared == ret.awaiting ~> (~ret.awaiting /\ arg = <<"JobDetailsFetched">>)

(* C26: a FetchJobDetails that starts a scrape sets awaiting, awaiting is  *)
(* then cleared by a JobDetailsFetched whether the scrape succeeds or      *)
(* fails, and a FetchJobDetails that starts no scrape changes nothing.     *)
C26_AwaitingSetAndCleared == AwaitingSetOnStart /\ AwaitingCleared /\ NoScrapeNoChange

(***************************************************************************)
(* FindJobs (job_hunter.rs) and apijobs_job_search (api.rs): each press of *)
(* the button starts a search as a task; for every hit of the response the *)
(* search looks for a job post with the hit's id, and without one makes    *)
(* the job post (into_job_post, which looks for the company) and inserts   *)
(* it. Each of the three awaits is a step, so the steps of the searches in *)
(* flight interleave. ret holds the rows of job_post and company and the   *)
(* searches in flight: the hits, the hit at hand and the step.             *)
(***************************************************************************)
MaxSearches == 2

SearchResponses == {<<"a">>, <<"a", "b">>, <<"b", "a">>, <<>>}

HitCompany == "Acme"

SearchInit ==
    /\ pc = "running"
    /\ arg = <<>>
    /\ ret = [job_post |-> <<>>, company |-> <<>>, searches |-> <<>>, filtering |-> 0]

(* Message::FindJobs: Task::perform(api::apijobs_job_search(..), |_| Message::FilterResults) *)
FindJobs ==
    /\ pc = "running" /\ Len(ret.searches) < MaxSearches
    /\ \E hits \in SearchResponses :
          ret' = [ret EXCEPT !.searches =
                     Append(ret.searches, [hits |-> hits, job |-> 1, step |-> "exists"])]
    /\ arg' = <<"FindJobs">>
    /\ UNCHANGED pc

SearchAt(i, step) ==
    /\ pc = "running"
    /\ i \in 1 .. Len(ret.searches)
    /\ ret.searches[i].job <= Len(ret.searches[i].hits)
    /\ ret.searches[i].step = step

Hit(i) == ret.searches[i].hits[ret.searches[i].job]

(* SELECT id FROM job_post WHERE apijobs_id = ? *)
Exists(rows, apijobs_id) == \E r \in 1 .. Len(rows) : rows[r].apijobs_id = Some(apijobs_id)

SearchExists ==
    \E i \in 1 .. Len(ret.searches) :
       /\ SearchAt(i, "exists")
       /\ ret' = IF Exists(ret.job_post, Hit(i))
                 THEN [ret EXCEPT !.searches[i].job = ret.searches[i].job + 1]
                 ELSE [ret EXCEPT !.searches[i].step = "into_job_post"]
       /\ arg' = <<"SELECT id FROM job_post WHERE apijobs_id = ?", Hit(i)>>
       /\ UNCHANGED pc

(* job.into_job_post(&executor).await: get or create the company *)
SearchIntoJobPost ==
    \E i \in 1 .. Len(ret.searches) :
       /\ SearchAt(i, "into_job_post")
       /\ ret' = [ret EXCEPT
                     !.searches[i].step = "insert",
                     !.company = IF \E c \in 1 .. Len(ret.company) : ret.company[c] = HitCompany
                                 THEN ret.company ELSE Append(ret.company, HitCompany)]
       /\ arg' = <<"into_job_post", Hit(i)>>
       /\ UNCHANGED pc

(* job_post.insert(&executor).await? *)
SearchInsert ==
    \E i \in 1 .. Len(ret.searches) :
       /\ SearchAt(i, "insert")
       /\ ret' = [ret EXCEPT
                     !.searches[i].step = "exists",
                     !.searches[i].job = ret.searches[i].job + 1,
                     !.job_post = Append(ret.job_post,
                                         [id |-> Len(ret.job_post) + 1,
                                          apijobs_id |-> Some(Hit(i))])]
       /\ arg' = <<"INSERT INTO job_post", Hit(i)>>
       /\ UNCHANGED pc

(* the search returns: Message::FilterResults *)
SearchFilterResults ==
    /\ pc = "running"
    /\ \E i \in 1 .. Len(ret.searches) :
          /\ ret.searches[i].job > Len(ret.searches[i].hits)
          /\ ret' = [ret EXCEPT !.searches = SubSeq(ret.searches, 1, i - 1)
                                               \o SubSeq(ret.searches, i + 1, Len(ret.searches)),
                                !.filtering = 1]
    /\ arg' = <<"FilterResults">>
    /\ UNCHANGED pc

SearchNext ==
    \/ FindJobs \/ SearchExists \/ SearchIntoJobPost \/ SearchInsert \/ SearchFilterResults

SpecSearch == SearchInit /\ [][SearchNext]_vars

(***************************************************************************)
(* Claims about the searches                                               *)
(***************************************************************************)
(* C24: no two rows of job_post have the same apijobs_id. *)
C24_NoDuplicateApijobsId ==
    \A r, q \in 1 .. Len(ret.job_post) :
        r # q => ret.job_post[r].apijobs_id # ret.job_post[q].apijobs_id

====
